---- MODULE Spec2Model ----
(***************************************************************************)
(* Kovrycha: the cognitive-behavioural engine of the screen companion.     *)
(*                                                                         *)
(*   brain     KovrychaBrain          src/core/brain.py                    *)
(*   behavior  KovrychaBehavior       src/core/behavior.py                 *)
(*   sensory   KovrychaSensorySystem  src/core/sensory.py                  *)
(*                                                                         *)
(* Numbers.  The program computes in floating point; the model computes in *)
(* fixed point.  Scalars of the unit interval (energy, curiosity, activity *)
(* levels, random draws) are integers in millionths, the clock (time.time) *)
(* is in milliseconds, lengths are in hundredths of a pixel.  With these   *)
(* units every constant of the brain's rules is an exact integer           *)
(* (0.001 energy per second of inactivity = 1 millionth per millisecond).  *)
(***************************************************************************)
EXTENDS Integers, Sequences, FiniteSets, TLC

VARIABLES
    brain,      \* KovrychaBrain: mood, energy, curiosity, last_activity, activity_history
    behavior,   \* KovrychaBehavior: position, target, velocity, radius, canvas, particles, ...
    sensory,    \* KovrychaSensorySystem: pointer and visual-change accumulators
    now,        \* the wall clock, time.time(), in milliseconds
    calls,      \* number of operations performed so far (bounds the exploration)
    last,       \* history variable: the operation just performed, its arguments, the values it read
    inserted,   \* history variable: every record appended since the history was last empty
    threads,    \* the pointer-listener thread and the tick thread: where each is in its call
    mappings    \* the state mappings held outside the brain: returned by export_state, handed to import_state

vars == <<brain, behavior, sensory, now, calls, last, inserted, threads, mappings>>

Unit == 1000 * 1000          \* 1.0 of a unit-interval scalar
Sec  == 10 * 100             \* one second of the clock

Min(a, b) == IF a < b THEN a ELSE b
Max(a, b) == IF a > b THEN a ELSE b

\* dict.get(key, default)
Get(d, k, default) == IF k \in DOMAIN d THEN d[k] ELSE default

(***************************************************************************)
(* Configuration (utils/config.py, DEFAULT_CONFIG)                         *)
(***************************************************************************)
Moods == {"excited", "curious", "calm", "sleepy", "alert", "annoyed", "sad", "reflective"}

initial_mood      == "calm"
initial_energy    == Unit \div 2
initial_curiosity == (7 * Unit) \div 10

max_history_length == 100

(***************************************************************************)
(* KovrychaBrain                                                           *)
(***************************************************************************)
\* config['zones']: the configured width and height of each zone, px
zone_sizes ==
    [active       |-> [width |-> 100, height |-> 100],
     productivity |-> [width |-> 300, height |-> 200],
     notification |-> [width |-> 200, height |-> 100],
     media        |-> [width |-> 400, height |-> 300]]

\* DEFAULT_CONFIG: the entries read when the brain is built or reset
DEFAULT_CONFIG ==
    [initial_mood |-> initial_mood, initial_energy |-> initial_energy,
     initial_curiosity |-> initial_curiosity]

\* KovrychaBrain.__init__(config) at clock value t
BrainFromConfig(config, t) ==
    [config           |-> config,
     mood             |-> config.initial_mood,
     energy           |-> config.initial_energy,
     curiosity        |-> config.initial_curiosity,
     last_activity    |-> t,
     zones            |-> [z \in DOMAIN zone_sizes |->
                              [x |-> 0, y |-> 0, width |-> zone_sizes[z].width,
                               height |-> zone_sizes[z].height]],
     activity_history |-> << >>]

\* KovrychaBrain.__init__ with the default configuration
BrainNew(t) == BrainFromConfig(DEFAULT_CONFIG, t)

\* One entry of activity_history, as record_activity builds it.
ActivityRecord(data, t, b) ==
    [timestamp |-> t,
     data      |-> data,
     response  |-> [mood |-> b.mood, energy |-> b.energy]]

\* A faulty record_activity: evicts the newest entry instead of the oldest.
record_activity_evict_newest(b, data, t) ==
    LET h == Append(b.activity_history, ActivityRecord(data, t, b))
    IN  [b EXCEPT !.activity_history =
            IF Len(h) > max_history_length THEN SubSeq(h, 1, Len(h) - 1) ELSE h]

\* record_activity: append, then drop the first entry when the list is too long.
record_activity(b, data, t) ==
    LET h == Append(b.activity_history, ActivityRecord(data, t, b))
    IN  [b EXCEPT !.activity_history =
            IF Len(h) > max_history_length THEN Tail(h) ELSE h]

\* A faulty inactivity_rule: the energy decays but the mood never turns sleepy.
inactivity_rule_no_sleep(b, t) ==
    LET since == t - b.last_activity IN
    IF since > 10 * Sec
    THEN [b EXCEPT !.energy = Max(Unit \div 10, b.energy - since)]
    ELSE b

\* A faulty inactivity_rule: the decayed energy is floored at 0 instead of 0.1.
inactivity_rule_floor_zero(b, t) ==
    LET since == t - b.last_activity IN
    IF since > 10 * Sec
    THEN LET e == Max(0, b.energy - since)
         IN  [b EXCEPT !.energy = e,
                       !.mood   = IF e < (3 * Unit) \div 10 /\ b.mood # "sleepy"
                                  THEN "sleepy" ELSE b.mood]
    ELSE b

\* Rule 1 of update_mood: energy decay and sleepiness after more than 10 s without activity.
inactivity_rule(b, t) ==
    LET since == t - b.last_activity IN
    IF since > 10 * Sec
    THEN LET e == Max(Unit \div 10, b.energy - since)
         IN  [b EXCEPT !.energy = e,
                       !.mood   = IF e < (3 * Unit) \div 10 /\ b.mood # "sleepy"
                                  THEN "sleepy" ELSE b.mood]
    ELSE b

\* A faulty pointer_rule: the energy gain is not capped at 1.0.
pointer_rule_uncapped(b, env, t, draws) ==
    IF Get(env, "mouse_activity", 0) > (7 * Unit) \div 10
    THEN [b EXCEPT !.energy = b.energy + Unit \div 20, !.last_activity = t]
    ELSE b

\* A faulty pointer_rule: a snapshot without mouse_activity counts as full activity.
pointer_rule_missing_is_full(b, env, t, draws) ==
    IF Get(env, "mouse_activity", Unit) > (7 * Unit) \div 10
    THEN [b EXCEPT !.energy = Min(Unit, b.energy + Unit \div 20), !.last_activity = t]
    ELSE b

\* A faulty pointer_rule: the zone is consulted before the test for very high activity.
pointer_rule_zone_first(b, env, t, draws) ==
    IF Get(env, "mouse_activity", 0) > (7 * Unit) \div 10
    THEN LET b1 == [b EXCEPT !.energy = Min(Unit, b.energy + Unit \div 20),
                             !.last_activity = t]
         IN  IF Get(env, "zone", "") = "productivity"
             THEN IF draws.branch > (7 * Unit) \div 10
                  THEN [b1 EXCEPT !.mood = "calm"] ELSE b1
             ELSE IF Get(env, "mouse_activity", 0) > (9 * Unit) \div 10
             THEN IF draws.branch > (7 * Unit) \div 10
                  THEN [b1 EXCEPT !.mood = "excited"] ELSE b1
             ELSE b1
    ELSE b

\* Rule 2 of update_mood: high pointer activity.
pointer_rule(b, env, t, draws) ==
    IF Get(env, "mouse_activity", 0) > (7 * Unit) \div 10
    THEN LET b1 == [b EXCEPT !.energy = Min(Unit, b.energy + Unit \div 20),
                             !.last_activity = t]
         IN  IF Get(env, "mouse_activity", 0) > (9 * Unit) \div 10
             THEN IF draws.branch > (7 * Unit) \div 10
                  THEN [b1 EXCEPT !.mood = "excited"] ELSE b1
             ELSE IF Get(env, "zone", "") = "productivity"
             THEN IF draws.branch > (8 * Unit) \div 10
                  THEN [b1 EXCEPT !.mood = "calm"] ELSE b1
             ELSE IF Get(env, "zone", "") = "active"
             THEN IF draws.branch > (8 * Unit) \div 10
                  THEN [b1 EXCEPT !.mood = "curious"] ELSE b1
             ELSE b1
    ELSE b

NotificationStimulus(env) ==
    /\ Get(env, "zone", "") = "notification"
    /\ Get(env, "visual_change", 0) > Unit \div 2

\* A faulty notification_rule: the energy gain is not capped at 1.0.
notification_rule_uncapped(b, env, t) ==
    IF NotificationStimulus(env)
    THEN [b EXCEPT !.mood = "alert", !.energy = b.energy + Unit \div 5, !.last_activity = t]
    ELSE b

\* A faulty notification_rule: the energy gain is forgotten.
notification_rule_no_gain(b, env, t) ==
    IF NotificationStimulus(env)
    THEN [b EXCEPT !.mood = "alert", !.last_activity = t]
    ELSE b

\* Rule 3 of update_mood: activity in the notification zone.
notification_rule(b, env, t) ==
    IF NotificationStimulus(env)
    THEN [b EXCEPT !.mood = "alert",
                   !.energy = Min(Unit, b.energy + Unit \div 5),
                   !.last_activity = t]
    ELSE b

DriftFires(draws) == draws.drift > (995 * Unit) \div 1000

\* Rule 4 of update_mood: the random mood transition.
drift_rule(b, draws) ==
    IF DriftFires(draws) THEN [b EXCEPT !.mood = draws.choice] ELSE b

\* The four mood rules of update_mood, in the order of the code.
mood_rules(b, env, t, draws) ==
    LET b1 == inactivity_rule(b, t)
        b2 == pointer_rule(b1, env, t, draws)
        b3 == notification_rule(b2, env, t)
    IN  drift_rule(b3, draws)

\* update_mood(environment_data) called at clock value t with the random draws `draws`.
update_mood(b, env, t, draws) ==
    record_activity(mood_rules(b, env, t, draws), env, t)

\* A faulty import: a field missing from the state is reset to its configured default.
import_state_defaults_missing(b, state) ==
    IF DOMAIN state = {}
    THEN [ok |-> FALSE, brain |-> b]
    ELSE [ok |-> TRUE,
          brain |-> [b EXCEPT
                     !.mood             = Get(state, "mood", initial_mood),
                     !.energy           = Get(state, "energy", initial_energy),
                     !.curiosity        = Get(state, "curiosity", initial_curiosity),
                     !.last_activity    = Get(state, "last_activity", b.last_activity),
                     !.activity_history =
                         IF "activity_history" \in DOMAIN state /\ state.activity_history.is_list
                         THEN state.activity_history.items
                         ELSE b.activity_history]]

\* import_state(state): [ok |-> the value returned, brain |-> the brain afterwards].
\* A state is a mapping with any subset of the five fields; None and {} are the empty
\* mapping.  Its activity_history is [is_list |-> isinstance(v, list), items |-> v].
import_state(b, state) ==
    IF DOMAIN state = {}
    THEN [ok |-> FALSE, brain |-> b]
    ELSE [ok |-> TRUE,
          brain |-> [b EXCEPT
                     !.mood             = Get(state, "mood", b.mood),
                     !.energy           = Get(state, "energy", b.energy),
                     !.curiosity        = Get(state, "curiosity", b.curiosity),
                     !.last_activity    = Get(state, "last_activity", b.last_activity),
                     !.activity_history =
                         IF "activity_history" \in DOMAIN state /\ state.activity_history.is_list
                         THEN state.activity_history.items
                         ELSE b.activity_history]]

(***************************************************************************)
(* KovrychaBehavior                                                        *)
(*                                                                         *)
(* Lengths are in hundredths of a pixel, velocities in hundredths of a     *)
(* pixel per reference frame (particles: per second), delta_time in ms.    *)
(* math.sin, math.cos and the Perlin noise generators are not computed:    *)
(* each call returns some value of the function's range, given as a draw.  *)
(***************************************************************************)
Px == 10 * 10                \* one pixel

\* v * u for a unit-interval scalar u (in millionths, used to the third decimal)
MulU(v, u) == (v * (u \div 1000)) \div 1000

base_radius      == 30 * Px
transition_speed == Unit \div 20
friction         == (95 * Unit) \div 100
bounce           == (7 * Unit) \div 10
max_delta_time   == 100

pulse_speed(m) ==
    CASE m = "excited"    -> 30000
      [] m = "curious"    -> 15000
      [] m = "sleepy"     -> 4000
      [] m = "alert"      -> 50000
      [] m = "annoyed"    -> 40000
      [] m = "sad"        -> 5000
      [] m = "reflective" -> 10000
      [] OTHER            -> 8000      \* calm, and the fallback for an unknown mood

\* A faulty template table: calm has a template too.
effect_templates_with_calm ==
    [excited    |-> [particle_count |-> 15, particle_speed |-> 2 * Px,
                     particle_size |-> 350, particle_lifespan |-> 1500, colors |-> 3],
     calm       |-> [particle_count |-> 8, particle_speed |-> 120,
                     particle_size |-> 250, particle_lifespan |-> 2000, colors |-> 3]]

\* The particle templates of init_effect_systems: count, speed (px/s), size (px),
\* lifespan (ms), number of colours.
effect_templates ==
    [excited    |-> [particle_count |-> 15, particle_speed |-> 2 * Px,
                     particle_size |-> 350, particle_lifespan |-> 1500, colors |-> 3],
     curious    |-> [particle_count |-> 8, particle_speed |-> 120,
                     particle_size |-> 250, particle_lifespan |-> 2000, colors |-> 3],
     alert      |-> [particle_count |-> 12, particle_speed |-> 3 * Px,
                     particle_size |-> 4 * Px, particle_lifespan |-> 800, colors |-> 3],
     reflective |-> [particle_count |-> 6, particle_speed |-> 70,
                     particle_size |-> 2 * Px, particle_lifespan |-> 3000, colors |-> 3]]

\* KovrychaBrain.get_current_mood_state (the fields update reads)
get_current_mood_state(b) ==
    [mood        |-> b.mood,
     energy      |-> b.energy,
     pulse_speed |-> MulU(pulse_speed(b.mood), b.energy)]

\* KovrychaBehavior.__init__ on a canvas of the given size, at clock value t.
BehaviorNew(canvas_width, canvas_height, t) ==
    [canvas_width  |-> canvas_width,
     canvas_height |-> canvas_height,
     x |-> canvas_width \div 2,
     y |-> canvas_height \div 2,
     target_x |-> canvas_width \div 2,
     target_y |-> canvas_height \div 2,
     velocity_x |-> 0,
     velocity_y |-> 0,
     radius |-> base_radius,
     pulse_phase |-> 0,
     color_phase |-> 0,
     transition_progress  |-> Unit,
     transition_from_mood |-> "None",
     transition_to_mood   |-> "None",
     transition_ticks |-> 0,  \* history field: updates since the transition in progress started
     mood_seen |-> "None",    \* history field: the brain's mood at the previous update
     noise_offset |-> 0,
     effect_timer |-> 0,
     particles |-> << >>,
     spawned |-> 0,           \* history field: the number of particles created so far
     last_update_time |-> t,
     frame_time |-> 0]

\* resize_canvas(width, height)
resize_canvas(h, width, height) ==
    LET h1 == [h EXCEPT !.canvas_width = width, !.canvas_height = height]
        h2 == IF h1.x > h1.canvas_width THEN [h1 EXCEPT !.x = h1.canvas_width \div 2] ELSE h1
    IN  IF h2.y > h2.canvas_height THEN [h2 EXCEPT !.y = h2.canvas_height \div 2] ELSE h2

\* A faulty set_position: the velocity is kept.
set_position_keeps_velocity(h, px, py) ==
    [h EXCEPT !.x = px, !.y = py, !.target_x = px, !.target_y = py]

\* set_position(x, y)
set_position(h, px, py) ==
    [h EXCEPT !.x = px, !.y = py, !.target_x = px, !.target_y = py,
              !.velocity_x = 0, !.velocity_y = 0]

\* A faulty bookkeeping: the progress advances by three steps and is not cut off at 1.0.
update_transition_overshoots(h, b) ==
    IF h.transition_progress < Unit
    THEN [h EXCEPT !.transition_progress = @ + 3 * transition_speed,
                   !.transition_ticks = @ + 1]
    ELSE IF h.transition_from_mood # get_current_mood_state(b).mood
    THEN [h EXCEPT !.transition_from_mood = b.mood,
                   !.transition_to_mood   = get_current_mood_state(b).mood,
                   !.transition_progress  = 0,
                   !.transition_ticks     = 0]
    ELSE h

\* update: the mood-transition bookkeeping.
update_transition(h, b) ==
    IF h.transition_progress < Unit
    THEN LET p == h.transition_progress + transition_speed
         IN  IF p >= Unit
             THEN [h EXCEPT !.transition_progress = Unit, !.transition_from_mood = "None",
                            !.transition_ticks = @ + 1]
             ELSE [h EXCEPT !.transition_progress = p, !.transition_ticks = @ + 1]
    ELSE IF h.transition_from_mood # get_current_mood_state(b).mood
    THEN [h EXCEPT !.transition_from_mood = b.mood,
                   !.transition_to_mood   = get_current_mood_state(b).mood,
                   !.transition_progress  = 0,
                   !.transition_ticks     = 0]
    ELSE h

\* update: pulse and colour phases, and the pulsing radius; sin_pulse is the value of
\* math.sin(self.pulse_phase).
update_pulse(h, b, delta_time, sin_pulse) ==
    LET ms == get_current_mood_state(b)
        pulse_amount == sin_pulse \div 5 + (8 * Unit) \div 10
        factor == (8 * Unit) \div 10 + MulU(MulU(pulse_amount, ms.energy), Unit \div 2)
    IN  [h EXCEPT !.pulse_phase = @ + (ms.pulse_speed * delta_time * 6) \div 100,
                  !.color_phase = @ + (ms.pulse_speed * delta_time * 3) \div 100,
                  !.radius = MulU(base_radius, factor)]

\* A faulty boundary check: the lower limit is not applied.
clamp_no_lower(v, lo, hi) == Min(v, hi)

\* max(lo, min(v, hi)), the boundary check of update_movement
clamp(v, lo, hi) == Max(lo, Min(v, hi))

\* A faulty planner: whatever the mood, the target is the current position.
plan_target_rests(h, ms, env, zones, d) == [x |-> h.x, y |-> h.y]

\* update_movement: the target chosen by the mood's policy, before the boundary check.
\* d.noise_x, d.noise_y are the noise values times 2; d.jitter_x, d.jitter_y the two
\* random.random() values of the annoyed policy; d.orbit the (cos, sin) of the reflective
\* policy's angle.
plan_target(h, ms, env, zones, d) ==
    CASE ms.mood = "excited" ->
            [x |-> h.x + MulU(20 * Px, d.noise_x), y |-> h.y + MulU(20 * Px, d.noise_y)]
      [] ms.mood = "curious" ->
            IF "mouse_x" \in DOMAIN env /\ "mouse_y" \in DOMAIN env
            THEN [x |-> h.x + (env.mouse_x * Px - h.x) \div 20 + MulU(5 * Px, d.noise_x),
                  y |-> h.y + (env.mouse_y * Px - h.y) \div 20 + MulU(5 * Px, d.noise_y)]
            ELSE [x |-> h.target_x, y |-> h.target_y]
      [] ms.mood = "calm" ->
            [x |-> h.x + MulU(3 * Px, d.noise_x), y |-> h.y + MulU(3 * Px, d.noise_y)]
      [] ms.mood = "sleepy" ->
            [x |-> h.x + MulU(Px, d.noise_x), y |-> h.y + MulU(Px, d.noise_y)]
      [] ms.mood = "alert" ->
            IF Get(env, "zone", "") = "notification"
            THEN [x |-> (zones.notification.x * Px) + (zones.notification.width * Px) \div 2,
                  y |-> (zones.notification.y * Px) + (zones.notification.height * Px) \div 2]
            ELSE [x |-> h.target_x, y |-> h.target_y]
      [] ms.mood = "annoyed" ->
            [x |-> h.x + MulU(15 * Px, 2 * d.jitter_x - Unit),
             y |-> h.y + MulU(15 * Px, 2 * d.jitter_y - Unit)]
      [] ms.mood = "sad" ->
            [x |-> h.x + MulU(2 * Px, d.noise_x),
             y |-> Min(h.y + Px \div 2, h.canvas_height - h.radius)]
      [] ms.mood = "reflective" ->
            LET orbit_radius == (Min(h.canvas_width, h.canvas_height) * 3) \div 10
            IN  [x |-> h.canvas_width \div 2 + MulU(orbit_radius, d.orbit[1]),
                 y |-> h.canvas_height \div 2 + MulU(orbit_radius, d.orbit[2])]
      [] OTHER -> [x |-> h.target_x, y |-> h.target_y]

\* update_movement(mood_state, environment_data, delta_time)
update_movement(h, ms, env, zones, delta_time, d) ==
    LET t == plan_target(h, ms, env, zones, d)
    IN  [h EXCEPT !.noise_offset = @ + (delta_time * 6 * Unit) \div 10000,
                  !.target_x = clamp(t.x, h.radius, h.canvas_width - h.radius),
                  !.target_y = clamp(t.y, h.radius, h.canvas_height - h.radius)]

\* pow(friction, delta_time * 60), to three decimals, for the delta_time values explored
friction_pow(delta_time) ==
    CASE delta_time = 0   -> Unit
      [] delta_time = 10  -> 970000
      [] delta_time = 50  -> 857000
      [] delta_time = 100 -> 735000

\* One axis of apply_physics up to the position update: [p |-> position, v |-> velocity].
integrate_axis(p, v, target, delta_time) ==
    LET v1 == v + ((target - p) * delta_time * 6) \div 10000
        v2 == MulU(v1, friction_pow(delta_time))
    IN  [p |-> p + (v2 * delta_time * 6) \div 100, v |-> v2]

\* A faulty boundary collision: the velocity is scaled by the bounce factor but not inverted.
collide_axis_no_inversion(a, lo, hi) ==
    IF a.p < lo THEN [p |-> lo, v |-> MulU(a.v, bounce)]
    ELSE IF a.p > hi THEN [p |-> hi, v |-> MulU(a.v, bounce)]
    ELSE a

\* A faulty boundary collision: the far boundary is not checked.
collide_axis_near_only(a, lo, hi) ==
    IF a.p < lo THEN [p |-> lo, v |-> MulU(a.v, -bounce)] ELSE a

\* One axis of apply_physics: the boundary collision with bounce.
collide_axis(a, lo, hi) ==
    IF a.p < lo THEN [p |-> lo, v |-> MulU(a.v, -bounce)]
    ELSE IF a.p > hi THEN [p |-> hi, v |-> MulU(a.v, -bounce)]
    ELSE a

\* apply_physics(delta_time)
apply_physics(h, delta_time) ==
    LET ax == collide_axis(integrate_axis(h.x, h.velocity_x, h.target_x, delta_time),
                           h.radius, h.canvas_width - h.radius)
        ay == collide_axis(integrate_axis(h.y, h.velocity_y, h.target_y, delta_time),
                           h.radius, h.canvas_height - h.radius)
    IN  [h EXCEPT !.x = ax.p, !.velocity_x = ax.v, !.y = ay.p, !.velocity_y = ay.v]

\* update_effects: one particle advanced by delta_time.  The fields id (the particle's
\* rank among the particles created), born (the life it was created with) and age (the
\* delta_time it has lived through) are history fields: the program does not store them.
advance_particle(q, delta_time) ==
    [q EXCEPT !.x = @ + (q.vx * delta_time) \div 1000,
              !.y = @ + (q.vy * delta_time) \div 1000,
              !.life = @ - delta_time,
              !.age = @ + delta_time]

\* A faulty liveness test: a particle whose life is exactly used up is kept.
still_alive_at_zero(q) == q.life >= 0

\* update_effects: "keep if still alive"
still_alive(q) == q.life > 0

\* update_effects: the particle created by a spawn, from the draws d.
new_particle(h, template, d) ==
    LET distance == MulU(h.radius, (9 * Unit) \div 10 + d.distance \div 5)
        speed    == MulU(template.particle_speed, (7 * Unit) \div 10 + (d.speed * 6) \div 10)
        life     == MulU(template.particle_lifespan, (7 * Unit) \div 10 + (d.life * 6) \div 10)
    IN  [x  |-> h.x + MulU(distance, d.angle[1]),
         y  |-> h.y + MulU(distance, d.angle[2]),
         vx |-> MulU(speed, d.angle[1]),
         vy |-> MulU(speed, d.angle[2]),
         size  |-> MulU(template.particle_size, (8 * Unit) \div 10 + (d.size * 4) \div 10),
         color |-> d.color,
         life  |-> life,
         initial_life |-> MulU(template.particle_lifespan,
                               (7 * Unit) \div 10 + (d.initial_life * 6) \div 10),
         id   |-> h.spawned + 1,
         born |-> life,
         age  |-> 0]

\* spawn_chance = particle_count * delta_time * energy, in millionths
spawn_chance(template, delta_time, ms) ==
    template.particle_count * delta_time * (ms.energy \div 1000)

\* update_effects(delta_time, mood_state)
update_effects(h, ms, delta_time, d) ==
    LET advanced == [i \in 1..Len(h.particles) |-> advance_particle(h.particles[i], delta_time)]
        updated_particles == SelectSeq(advanced, still_alive)
        spawns == /\ ms.mood \in DOMAIN effect_templates
                  /\ d.spawn < spawn_chance(effect_templates[ms.mood], delta_time, ms)
    IN  [h EXCEPT !.effect_timer = @ + delta_time,
                  !.spawned = IF spawns THEN @ + 1 ELSE @,
                  !.particles = IF spawns
                                THEN Append(updated_particles,
                                            new_particle(h, effect_templates[ms.mood], d))
                                ELSE updated_particles]

\* A faulty cap: delta_time is the full limit whatever the gap.
capped_delta_time_always_limit(h, t) == max_delta_time

\* delta_time = min(0.1, current_time - self.last_update_time)
capped_delta_time(h, t) == Min(max_delta_time, t - h.last_update_time)

\* update(environment_data) called at clock value t with the draws d.  The steps run in
\* the order of the code, h1 to h5 being the object after each step (each the one element
\* of its set, so that it is computed once).
update(h, b, env, t, d) ==
    LET delta_time == capped_delta_time(h, t)
        ms == get_current_mood_state(b)
    IN  CHOOSE r \in
          { update_effects(h5, ms, delta_time, d) :
              h5 \in { apply_physics(h4, delta_time) :
                h4 \in { update_movement(h3, ms, env, b.zones, delta_time, d) :
                  h3 \in { update_pulse(h2, b, delta_time, d.sin_pulse) :
                    h2 \in { update_transition(h1, b) :
                      h1 \in { [h EXCEPT !.last_update_time = t,
                                         !.frame_time = delta_time,
                                         !.mood_seen = ms.mood] } } } } } } : TRUE

(***************************************************************************)
(* KovrychaSensorySystem                                                   *)
(*                                                                         *)
(* Pointer coordinates and zone rectangles are in whole pixels.            *)
(***************************************************************************)
ScreenWidth  == 1920         \* pyautogui.size()
ScreenHeight == 1080

\* The clock value at construction.  time.time() counts from the epoch, so the program
\* starts at a large clock value; last_mouse_move_time starts at 0 on the same clock.
ProgramStart == 1000 * 1000 * Sec

\* The order in which brain.zones is iterated (the insertion order of the dict)
ZoneOrder == <<"active", "productivity", "notification", "media">>

\* KovrychaSensorySystem.__init__ at clock value t (before start_sensors)
SensoryNew(t) ==
    [mouse_x |-> 0, mouse_y |-> 0,
     mouse_velocity_x |-> 0, mouse_velocity_y |-> 0,
     last_mouse_x |-> 0, last_mouse_y |-> 0,
     mouse_active |-> FALSE,
     mouse_activity_level |-> 0,
     last_mouse_move_time |-> 0,
     active_window |-> [title |-> "", x |-> 0, y |-> 0, width |-> 0, height |-> 0,
                        is_active |-> TRUE],
     last_sampled_time |-> t,
     visual_change_level |-> 0,
     decay_timers |-> << >>,  \* the single-shot timers started and not yet fired: their due times
     screen_width |-> ScreenWidth,
     screen_height |-> ScreenHeight]

\* update_zones_from_mouse: the active zone follows the pointer.
update_zones_from_mouse(zones, s) ==
    LET size == zone_sizes.active.width
    IN  [zones EXCEPT !.active = [x |-> s.mouse_x - size \div 2, y |-> s.mouse_y - size \div 2,
                                  width |-> size, height |-> size]]

\* update_zones
update_zones(zones, s) ==
    LET z1 == update_zones_from_mouse(zones, s)
        w  == s.active_window
    IN  [z1 EXCEPT
           !.productivity =
               IF w.width > 0
               THEN [x |-> w.x + w.width \div 2 - 150, y |-> w.y + w.height \div 2 - 100,
                     width |-> 300, height |-> 200]
               ELSE [x |-> s.screen_width \div 2 - 150, y |-> s.screen_height \div 2 - 100,
                     width |-> 300, height |-> 200],
           !.notification = [x |-> s.screen_width - 210, y |-> 10,
                             width |-> 200, height |-> 100],
           !.media = [x |-> s.screen_width \div 2 - 200, y |-> s.screen_height - 310,
                      width |-> 400, height |-> 300]]

is_point_in_zone(px, py, zone) ==
    /\ px >= zone.x /\ px <= zone.x + zone.width
    /\ py >= zone.y /\ py <= zone.y + zone.height

\* detect_active_zone: the first zone, in iteration order, that holds the pointer.
detect_active_zone(zones, s) ==
    LET hits == {i \in 1..Len(ZoneOrder) : is_point_in_zone(s.mouse_x, s.mouse_y, zones[ZoneOrder[i]])}
    IN  IF hits = {} THEN "background"
        ELSE ZoneOrder[CHOOSE i \in hits : \A j \in hits : i <= j]

\* floor of the square root
ISqrt(n) == CHOOSE r \in 0..3000 : r * r <= n /\ n < (r + 1) * (r + 1)

\* min(1.0, speed / 30 * sensitivity) for the pointer displacement (vx, vy)
activity_of_speed(vx, vy) ==
    IF vx * vx + vy * vy >= 30 * 30 THEN Unit
    ELSE (ISqrt((vx * vx + vy * vy) * 10000) * 10000) \div 30

\* on_mouse_move(x, y) at clock value t (the zones are updated by OnMouseMove)
on_mouse_move(s, px, py, t) ==
    [s EXCEPT !.last_mouse_x = s.mouse_x, !.last_mouse_y = s.mouse_y,
              !.mouse_x = px, !.mouse_y = py,
              !.mouse_velocity_x = px - s.mouse_x,
              !.mouse_velocity_y = py - s.mouse_y,
              !.mouse_activity_level = activity_of_speed(px - s.mouse_x, py - s.mouse_y),
              !.last_mouse_move_time = t,
              !.mouse_active = TRUE]

\* The pointer-idle test of simulate_visual_changes: "current_time -
\* self.last_mouse_move_time > 500" on a clock that counts seconds.
pointer_idle(s, t) == t - s.last_mouse_move_time > 500 * Sec

\* simulate_visual_changes at clock value t
simulate_visual_changes(s, t) ==
    LET time_since_last_sample == t - s.last_sampled_time
        s1 == [s EXCEPT !.visual_change_level = Max(0, @ - time_since_last_sample * 200)]
        level == Max(0, s.mouse_activity_level - time_since_last_sample * 500)
        s2 == IF pointer_idle(s, t)
              THEN [s1 EXCEPT !.mouse_activity_level = level,
                              !.mouse_active = IF level < Unit \div 20 THEN FALSE ELSE @]
              ELSE s1
    IN  [s2 EXCEPT !.last_sampled_time = t]

\* The mapping returned by get_sensory_data at clock value t, after its decay step.
sensory_data(s, zones, t) ==
    [mouse_x |-> s.mouse_x, mouse_y |-> s.mouse_y,
     mouse_velocity_x |-> s.mouse_velocity_x, mouse_velocity_y |-> s.mouse_velocity_y,
     mouse_active |-> s.mouse_active,
     mouse_activity |-> s.mouse_activity_level,
     zone |-> detect_active_zone(zones, s),
     visual_change |-> s.visual_change_level,
     window_active |-> s.active_window.is_active,
     window_title |-> s.active_window.title,
     timestamp |-> t]

(***************************************************************************)
(* Operations                                                              *)
(***************************************************************************)
NoOp == [op |-> "init"]

\* Both threads between calls.  events is a history field: the pointer events received so
\* far, each with the velocity that belongs to it, after the pointer's position at start.
ThreadsIdle ==
    [listener |-> [pc |-> "idle", x |-> 0, y |-> 0],
     tick     |-> [pc |-> "idle", zone |-> "", mouse_x |-> 0, mouse_y |-> 0,
                   mouse_velocity_x |-> 0, mouse_velocity_y |-> 0],
     events   |-> << [x |-> 0, y |-> 0, vx |-> 0, vy |-> 0] >>]

\* KovrychaBrain.update_mood, `elapsed` ms after the previous clock reading.
UpdateMood(env, elapsed, draws) ==
    LET t == now + elapsed
        r == mood_rules(brain, env, t, draws)
    IN  /\ now' = t
        /\ brain' = update_mood(brain, env, t, draws)
        /\ inserted' = [inserted EXCEPT !.recs = Append(@, ActivityRecord(env, t, r))]
        /\ last' = [op |-> "update_mood", env |-> env, draws |-> draws, pre |-> brain,
                    decayed |-> inactivity_rule(brain, t).energy,
                    rules |-> [inactivity |-> inactivity_rule(brain, t),
                               pointer |-> pointer_rule(inactivity_rule(brain, t), env, t, draws)]]
        /\ calls' = calls + 1
        /\ UNCHANGED <<behavior, sensory>>

\* KovrychaBrain.record_activity called directly with a synthetic snapshot.
RecordActivity(elapsed) ==
    LET t    == now + elapsed
        data == [timestamp |-> t]
    IN  /\ now' = t
        /\ brain' = record_activity(brain, data, t)
        /\ inserted' = [inserted EXCEPT !.recs = Append(@, ActivityRecord(data, t, brain))]
        /\ last' = [op |-> "record_activity", pre |-> brain]
        /\ calls' = calls + 1
        /\ UNCHANGED <<behavior, sensory>>

\* KovrychaBrain.import_state, as main() calls it with the 'brain' entry of a state file.
ImportState(state) ==
    LET r == import_state(brain, state) IN
    /\ brain' = r.brain
    /\ inserted' = IF r.brain.activity_history = brain.activity_history
                   THEN inserted
                   ELSE [on |-> FALSE, recs |-> << >>]
    /\ last' = [op |-> "import_state", state |-> state, ok |-> r.ok, pre |-> brain]
    /\ calls' = calls + 1
    /\ UNCHANGED <<behavior, sensory, now>>

\* KovrychDebugPanel.on_clear_history
ClearHistory ==
    /\ brain' = [brain EXCEPT !.activity_history = << >>]
    /\ inserted' = [on |-> TRUE, recs |-> << >>]
    /\ last' = [op |-> "clear_history", pre |-> brain]
    /\ calls' = calls + 1
    /\ UNCHANGED <<behavior, sensory, now>>

\* KovrychaBehavior.update, `elapsed` ms after the previous clock reading.
BehaviorUpdate(env, elapsed, d) ==
    LET t == now + elapsed IN
    /\ now' = t
    /\ behavior' = update(behavior, brain, env, t, d)
    /\ last' = [op |-> "update", env |-> env, draws |-> d, pre |-> behavior,
                delta_time |-> capped_delta_time(behavior, t), brain |-> brain,
                elapsed |-> elapsed]
    /\ calls' = calls + 1
    /\ UNCHANGED <<brain, sensory, inserted>>

\* KovrychaBehavior.set_position (a drag of the body, reset_position, the saved position)
SetPosition(px, py) ==
    /\ behavior' = set_position(behavior, px, py)
    /\ last' = [op |-> "set_position", pre |-> behavior, x |-> px, y |-> py,
                brain |-> brain]
    /\ calls' = calls + 1
    /\ UNCHANGED <<brain, sensory, now, inserted>>

\* KovrychaBehavior.resize_canvas (KovrychOverlay.resizeEvent, toggle_primary_screen)
ResizeCanvas(width, height) ==
    /\ behavior' = resize_canvas(behavior, width, height)
    /\ last' = [op |-> "resize_canvas", pre |-> behavior]
    /\ calls' = calls + 1
    /\ UNCHANGED <<brain, sensory, now, inserted>>

\* KovrychOverlay.set_mood (the tray menu)
SetMood(m) ==
    /\ brain' = IF m \in Moods THEN [brain EXCEPT !.mood = m] ELSE brain
    /\ last' = [op |-> "set_mood", pre |-> brain]
    /\ calls' = calls + 1
    /\ UNCHANGED <<behavior, sensory, now, inserted>>

\* KovrychaBehavior.apply_physics called with the given delta_time.
ApplyPhysics(delta_time) ==
    /\ behavior' = apply_physics(behavior, delta_time)
    /\ last' = [op |-> "apply_physics", pre |-> behavior, delta_time |-> delta_time]
    /\ calls' = calls + 1
    /\ UNCHANGED <<brain, sensory, now, inserted>>

\* KovrychaSensorySystem.on_mouse_move, `elapsed` ms after the previous clock reading.
OnMouseMove(px, py, elapsed) ==
    LET t == now + elapsed
        s == on_mouse_move(sensory, px, py, t)
    IN  /\ now' = t
        /\ sensory' = s
        /\ brain' = [brain EXCEPT !.zones = update_zones_from_mouse(@, s)]
        /\ last' = [op |-> "on_mouse_move", pre |-> sensory]
        /\ calls' = calls + 1
        /\ UNCHANGED <<behavior, inserted>>

\* One firing of the data timer: emit_sensory_data decays the levels, get_sensory_data
\* decays them again `gap` ms later and builds the snapshot, and the data_updated signal
\* runs KovrychOverlay.on_sensory_data: brain.update_mood, then behavior.update.
EmitSensoryData(elapsed, gap, bd, hd) ==
    LET t1  == now + elapsed
        t2  == t1 + gap
        s1  == simulate_visual_changes(sensory, t1)
        s2  == simulate_visual_changes(s1, t2)
        env == sensory_data(s2, brain.zones, t2)
        r   == mood_rules(brain, env, t2, bd)
        b   == update_mood(brain, env, t2, bd)
    IN  /\ now' = t2
        /\ sensory' = s2
        /\ brain' = b
        /\ behavior' = update(behavior, b, env, t2, hd)
        /\ inserted' = [inserted EXCEPT !.recs = Append(@, ActivityRecord(env, t2, r))]
        /\ last' = [op |-> "emit_sensory_data", env |-> env, pre |-> sensory,
                    idle |-> t1 - sensory.last_mouse_move_time]
        /\ calls' = calls + 1

(***************************************************************************)
(* Inputs of the operations                                                *)
(***************************************************************************)
MaxCalls   == 2      \* operations explored from construction in SpecBrain
MaxRecords == 150    \* record_activity calls explored in SpecHistory

\* Snapshots as update_mood reads them: mouse_activity, zone, visual_change.
BrainSnapshots ==
    { [mouse_activity |-> 0, zone |-> "background", visual_change |-> 0],
      [mouse_activity |-> (7 * Unit) \div 10, zone |-> "active", visual_change |-> 0],
      [mouse_activity |-> (8 * Unit) \div 10, zone |-> "active", visual_change |-> 0],
      [mouse_activity |-> (8 * Unit) \div 10, zone |-> "productivity", visual_change |-> 0],
      [mouse_activity |-> (95 * Unit) \div 100, zone |-> "productivity", visual_change |-> 0],
      [mouse_activity |-> 0, zone |-> "notification", visual_change |-> Unit \div 2],
      [mouse_activity |-> 0, zone |-> "notification", visual_change |-> (6 * Unit) \div 10],
      [mouse_activity |-> (8 * Unit) \div 10, zone |-> "notification",
       visual_change |-> (6 * Unit) \div 10],
      [zone |-> "notification", visual_change |-> (6 * Unit) \div 10] }

\* The values random.random() and random.choice() return in one update_mood call.
BrainDraws ==
    { [branch |-> b, drift |-> Unit \div 2, choice |-> "calm"] :
        b \in {Unit \div 2, (75 * Unit) \div 100, (9 * Unit) \div 10} }
    \cup
    { [branch |-> Unit \div 2, drift |-> (999 * Unit) \div 1000, choice |-> m] : m \in Moods }

\* Time between two clock readings: a 10 ms tick, 11 s, a stall of 250 s.
BrainElapsed == {10, 11 * Sec, 250 * Sec}

QuietSnapshot == [mouse_activity |-> 0, zone |-> "background", visual_change |-> 0]
BusySnapshot  == [mouse_activity |-> (8 * Unit) \div 10, zone |-> "background", visual_change |-> 0]
NoDrift == [branch |-> (9 * Unit) \div 10, drift |-> Unit \div 2, choice |-> "calm"]

\* The ticks explored: every snapshot at every elapsed time, every snapshot under every
\* draw, and the quiet snapshot after a stall under every draw.
TickInputs ==
    { [env |-> s, elapsed |-> e, draws |-> NoDrift] : s \in BrainSnapshots, e \in BrainElapsed }
    \cup
    { [env |-> s, elapsed |-> 10, draws |-> d] : s \in BrainSnapshots, d \in BrainDraws }
    \cup
    { [env |-> QuietSnapshot, elapsed |-> 250 * Sec, draws |-> d] : d \in BrainDraws }

\* The i-th entry of a saved history.
SavedRecord(i) ==
    [timestamp |-> ProgramStart - 1000 * Sec + i,
     data      |-> [timestamp |-> ProgramStart - 1000 * Sec + i],
     response  |-> [mood |-> "calm", energy |-> initial_energy]]

SavedHistory(n) == [is_list |-> TRUE, items |-> [i \in 1..n |-> SavedRecord(i)]]

\* The 'brain' entries of the state files offered to import_state.
ImportStates ==
    { << >>,
      [version |-> 1],
      [mood |-> "sad"],
      [mood |-> "grumpy", energy |-> (3 * Unit) \div 2],
      [energy |-> (2 * Unit) \div 10, curiosity |-> Unit, last_activity |-> ProgramStart - 500 * Sec],
      [activity_history |-> [is_list |-> FALSE, items |-> << >>]],
      [mood |-> "alert", energy |-> (98 * Unit) \div 100, curiosity |-> Unit \div 2,
       last_activity |-> ProgramStart - 5 * Sec, activity_history |-> SavedHistory(max_history_length)],
      [activity_history |-> SavedHistory(max_history_length + 1)] }

\* The draws of one update: the two noise values (each in [-2, 2] after doubling), the
\* two jitter draws, cos and sin of the orbit angle, sin of the pulse phase, and the
\* draws of update_effects (cos and sin of the emission angle in d.angle).
Draws(noise, jitter, orbit, sin_pulse, spawn, life) ==
    [noise_x |-> noise, noise_y |-> noise, jitter_x |-> jitter, jitter_y |-> Unit - jitter,
     orbit |-> orbit, sin_pulse |-> sin_pulse, spawn |-> spawn,
     distance |-> Unit \div 2, speed |-> Unit \div 2, life |-> life,
     initial_life |-> Unit \div 4, size |-> Unit \div 2, color |-> 1,
     angle |-> <<0, Unit>>]

NeverSpawn == Unit - 1       \* the largest value random.random() returns, in millionths
MidLife    == Unit \div 2    \* the life draw that gives exactly the template's lifespan

\* A snapshot as get_sensory_data builds it, with the pointer at (px, py) in the zone z.
Snapshot(px, py, z) ==
    [mouse_x |-> px, mouse_y |-> py, mouse_velocity_x |-> 0, mouse_velocity_y |-> 0,
     mouse_active |-> TRUE, mouse_activity |-> Unit \div 2, zone |-> z,
     visual_change |-> 0, window_active |-> TRUE, window_title |-> "", timestamp |-> 0]

\* The ticks offered to the body: snapshot, clock advance (ms) and draws.
MotionInputs ==
    { [env |-> Snapshot(0, 0, "active"), elapsed |-> 100,
       d |-> Draws(-(2 * Unit), 0, <<-Unit, 0>>, -Unit, NeverSpawn, MidLife)],
      [env |-> Snapshot(1900, 1000, "active"), elapsed |-> 50,
       d |-> Draws(2 * Unit, Unit, <<Unit, 0>>, Unit, NeverSpawn, MidLife)],
      [env |-> Snapshot(1800, 50, "notification"), elapsed |-> 100,
       d |-> Draws(0, Unit \div 2, <<0, Unit>>, 0, 0, MidLife)],
      [env |-> Snapshot(960, 540, "background"), elapsed |-> 0,
       d |-> Draws(Unit, 0, <<0, -Unit>>, Unit, NeverSpawn, MidLife)],
      [env |-> Snapshot(960, 540, "background"), elapsed |-> 10,
       d |-> Draws(-Unit, Unit, <<0, -Unit>>, -Unit, NeverSpawn, MidLife)] }

\* Positions handed to set_position: a drag to the corner, a drag past the far edges,
\* a point well inside.
Positions == { <<0, 0>>, <<1915 * Px, 1075 * Px>>, <<400 * Px, 300 * Px>> }

\* Canvas sizes handed to resize_canvas: the screen, a small window, a window smaller
\* than the body.
CanvasSizes == { <<ScreenWidth * Px, ScreenHeight * Px>>, <<800 * Px, 600 * Px>>,
                 <<50 * Px, 40 * Px>> }

MaxMotionCalls == 3

\* The states apply_physics is run from: the body 5 px or 1 px left of x = radius, or
\* inside the canvas, with a leftward or rightward velocity and a near or far target.
PhysicsOffsets    == { -(5 * Px), -Px, 20 * Px }
PhysicsVelocities == { -(10 * Px), -(2 * Px), -50, 3 * Px }
PhysicsTargets    == { base_radius, 100 * Px, 1000 * Px }
PhysicsSteps      == { 0, 10, 50, 100 }
MaxPhysicsCalls   == 2

\* The ticks offered to the particle system: the mood is set by SetMood.
EffectInputs ==
    { [elapsed |-> 100, d |-> Draws(0, 0, <<Unit, 0>>, 0, 0, MidLife)],
      [elapsed |-> 100, d |-> Draws(0, 0, <<Unit, 0>>, 0, 0, 0)],
      [elapsed |-> 50,  d |-> Draws(0, 0, <<Unit, 0>>, 0, NeverSpawn, MidLife)],
      [elapsed |-> 0,   d |-> Draws(0, 0, <<Unit, 0>>, 0, 0, Unit - 1)] }
EffectMoods == { "alert", "calm", "excited" }
QuietTick == [elapsed |-> 100, d |-> Draws(0, 0, <<Unit, 0>>, 0, NeverSpawn, MidLife)]
MaxEffectCalls == 4

\* The pointer events and timer firings offered to the sensory system.
PointerMoves == { <<10, 10>>, <<500, 400>>, <<1800, 50>> }
PointerElapsed == { 100, 2 * Sec }
EmitElapsed == { 100, Sec, 600 * Sec }
EmitGaps == { 0, 1 }
MaxSensoryCalls == 3

(***************************************************************************)
(* Specifications                                                          *)
(***************************************************************************)
\* KovrychOverlay.setup_core_components: the brain, the behaviour on a canvas of the
\* screen's size, the sensory system, whose start_sensors positions the zones.
Init ==
    /\ brain = [BrainNew(ProgramStart) EXCEPT
                   !.zones = update_zones(@, SensoryNew(ProgramStart))]
    /\ behavior = BehaviorNew(ScreenWidth * Px, ScreenHeight * Px, ProgramStart)
    /\ sensory = SensoryNew(ProgramStart)
    /\ now = ProgramStart
    /\ calls = 0
    /\ last = NoOp
    /\ inserted = [on |-> TRUE, recs |-> << >>]
    /\ threads = ThreadsIdle
    /\ mappings = << >>

\* The brain under ticks, imports and history clears.
NextBrain ==
    /\ calls < MaxCalls
    /\ \/ \E i \in TickInputs : UpdateMood(i.env, i.elapsed, i.draws)
       \/ \E st \in ImportStates : ImportState(st)
       \/ ClearHistory
    /\ UNCHANGED <<threads, mappings>>

SpecBrain == Init /\ [][NextBrain]_vars

\* The activity history under synthetic records, from the empty history.
NextHistory ==
    /\ calls < MaxRecords
    /\ RecordActivity(10)
    /\ UNCHANGED <<threads, mappings>>

SpecHistory == Init /\ [][NextHistory]_vars

\* The body under ticks, drags, resizes and mood changes.
NextMotion ==
    /\ calls < MaxMotionCalls
    /\ \/ \E i \in MotionInputs : BehaviorUpdate(i.env, i.elapsed, i.d)
       \/ \E p \in Positions : SetPosition(p[1], p[2])
       \/ \E c \in CanvasSizes : ResizeCanvas(c[1], c[2])
       \/ \E m \in Moods : SetMood(m)
    /\ UNCHANGED <<threads, mappings>>

SpecMotion == Init /\ [][NextMotion]_vars

\* apply_physics run from a chosen position, velocity and target.
InitPhysics ==
    /\ brain = [BrainNew(ProgramStart) EXCEPT
                   !.zones = update_zones(@, SensoryNew(ProgramStart))]
    /\ \E o \in PhysicsOffsets, v \in PhysicsVelocities, g \in PhysicsTargets :
          behavior = [BehaviorNew(ScreenWidth * Px, ScreenHeight * Px, ProgramStart) EXCEPT
                         !.x = base_radius + o, !.velocity_x = v, !.target_x = g]
    /\ sensory = SensoryNew(ProgramStart)
    /\ now = ProgramStart
    /\ calls = 0
    /\ last = NoOp
    /\ inserted = [on |-> TRUE, recs |-> << >>]
    /\ threads = ThreadsIdle
    /\ mappings = << >>

NextPhysics ==
    /\ calls < MaxPhysicsCalls
    /\ \E delta_time \in PhysicsSteps : ApplyPhysics(delta_time)
    /\ UNCHANGED <<threads, mappings>>

SpecPhysics == InitPhysics /\ [][NextPhysics]_vars

\* The particle system: MaxEffectCalls ticks and mood changes with any of the draws,
\* then ticks whose draw spawns nothing for as long as particles remain.  The data timer
\* keeps firing, so a tick that can happen eventually happens.
NextEffects ==
    /\ \/ /\ calls < MaxEffectCalls
          /\ \/ \E i \in EffectInputs : BehaviorUpdate(Snapshot(960, 540, "background"), i.elapsed, i.d)
             \/ \E m \in EffectMoods : SetMood(m)
       \/ /\ calls >= MaxEffectCalls
          /\ behavior.particles # << >>
          /\ BehaviorUpdate(Snapshot(960, 540, "background"), QuietTick.elapsed, QuietTick.d)
    /\ UNCHANGED <<threads, mappings>>

SpecEffects == Init /\ [][NextEffects]_vars /\ WF_vars(NextEffects)

\* The sensory system under pointer events and firings of the data timer.
NextSensory ==
    /\ calls < MaxSensoryCalls
    /\ \/ \E p \in PointerMoves, e \in PointerElapsed : OnMouseMove(p[1], p[2], e)
       \/ \E e \in EmitElapsed, g \in EmitGaps :
             EmitSensoryData(e, g, NoDrift, QuietTick.d)
    /\ UNCHANGED <<threads, mappings>>

SpecSensory == Init /\ [][NextSensory]_vars

(***************************************************************************)
(* Properties of the brain                                                 *)
(***************************************************************************)
InUnit(v) == 0 <= v /\ v <= Unit

\* C1: when energy and curiosity are in [0,1] before a call of update_mood, they are
\* in [0,1] after it, whatever the snapshot, the elapsed time and the random draws.
C1_ClampedAfterUpdateMood ==
    (/\ last.op = "update_mood"
     /\ InUnit(last.pre.energy)
     /\ InUnit(last.pre.curiosity))
    => (InUnit(brain.energy) /\ InUnit(brain.curiosity))

\* C1 witness: a tick whose energy gain was cut off at 1.0.
C1_Witness ==
    /\ last.op = "update_mood"
    /\ InUnit(last.pre.energy)
    /\ NotificationStimulus(last.env)
    /\ last.pre.energy + Unit \div 5 > Unit
    /\ brain.energy = Unit

\* C2: the length of activity_history never exceeds 100, after any sequence of ticks,
\* import_state calls and history clears.
C2_HistoryBound == Len(brain.activity_history) <= max_history_length

LastN(seq, n) == SubSeq(seq, Len(seq) - n + 1, Len(seq))

\* C3: after n calls of record_activity on an initially empty history, the history is
\* the last min(n, 100) records, in insertion order.
C3_OldestEvictedFirst ==
    inserted.on =>
        brain.activity_history =
            LastN(inserted.recs, Min(Len(inserted.recs), max_history_length))

\* C3 witness: 150 records were inserted and records 51..150 survive.
C3_Witness ==
    /\ inserted.on
    /\ Len(inserted.recs) = max_history_length + 50
    /\ Len(brain.activity_history) = max_history_length
    /\ brain.activity_history[1] = inserted.recs[51]
    /\ brain.activity_history[max_history_length] = inserted.recs[max_history_length + 50]

\* Since construction every operation was a tick with mouse_activity = 0 and no
\* notification stimulus (the inactivity scenario, from mood calm and energy 0.5).
QuietRun ==
    /\ inserted.on
    /\ Len(inserted.recs) = calls
    /\ \A i \in 1..Len(inserted.recs) :
          /\ Get(inserted.recs[i].data, "mouse_activity", 0) = 0
          /\ ~NotificationStimulus(inserted.recs[i].data)

\* The tick just performed is the first in which the inactivity rule left energy < 0.3.
FirstTickBelowSleepThreshold ==
    /\ last.op = "update_mood"
    /\ now - last.pre.last_activity > 10 * Sec
    /\ last.pre.energy >= (3 * Unit) \div 10
    /\ last.decayed < (3 * Unit) \div 10

\* C7 as stated: in the inactivity scenario, at the end of the first tick in which the
\* inactivity rule leaves energy < 0.3, mood is sleepy.
C7_SleepyOnceBelowThreshold ==
    (QuietRun /\ FirstTickBelowSleepThreshold) => brain.mood = "sleepy"

\* C7 amended: in the inactivity scenario, at the end of the first tick in which the
\* inactivity rule leaves energy < 0.3, mood is sleepy unless the random mood transition
\* fires in that tick; then mood is the mood it drew.
C7_SleepyUnlessDrift ==
    (QuietRun /\ FirstTickBelowSleepThreshold) =>
        brain.mood = IF DriftFires(last.draws) THEN last.draws.choice ELSE "sleepy"

\* C7 witness: from calm and 0.5, a quiet tick after a long stall turned the mood sleepy.
C7_Witness ==
    /\ QuietRun /\ FirstTickBelowSleepThreshold
    /\ last.pre.mood = "calm" /\ last.pre.energy = initial_energy
    /\ ~DriftFires(last.draws)
    /\ brain.mood = "sleepy"

\* C8 as stated: after a tick whose snapshot has zone 'notification' and
\* visual_change > 0.5, mood is alert, energy is min(1.0, previous energy + 0.2) and
\* last_activity is the tick time.
C8_NotificationAlert ==
    (last.op = "update_mood" /\ NotificationStimulus(last.env)) =>
        /\ brain.mood = "alert"
        /\ brain.energy = Min(Unit, last.pre.energy + Unit \div 5)
        /\ brain.last_activity = now

\* The energy after the inactivity and pointer rules of the tick just performed.
EnergyBeforeNotification ==
    pointer_rule(inactivity_rule(last.pre, now), last.env, now, last.draws).energy

\* C8 amended: after such a tick, mood is alert unless the random mood transition fired
\* (then it is the mood drawn); energy is min(1.0, e + 0.2) where e is the energy left by
\* the inactivity and pointer rules of the same tick, which is the previous energy when
\* at most 10 s passed since last_activity and mouse_activity <= 0.7; last_activity is
\* the tick time.
C8_NotificationAlertAfterEarlierRules ==
    (last.op = "update_mood" /\ NotificationStimulus(last.env)) =>
        /\ brain.mood = IF DriftFires(last.draws) THEN last.draws.choice ELSE "alert"
        /\ brain.energy = Min(Unit, EnergyBeforeNotification + Unit \div 5)
        /\ (/\ now - last.pre.last_activity <= 10 * Sec
            /\ Get(last.env, "mouse_activity", 0) <= (7 * Unit) \div 10)
           => brain.energy = Min(Unit, last.pre.energy + Unit \div 5)
        /\ brain.last_activity = now

\* C8 witness: a notification tick raised energy by exactly 0.2 and set mood alert.
C8_Witness ==
    /\ last.op = "update_mood" /\ NotificationStimulus(last.env)
    /\ brain.mood = "alert" /\ last.pre.mood # "alert"
    /\ brain.energy = last.pre.energy + Unit \div 5
    /\ brain.last_activity = now /\ now > last.pre.last_activity

(***************************************************************************)
(* Properties of the body                                                  *)
(***************************************************************************)
InsideCanvas(px, py, h) ==
    /\ h.radius <= px /\ px <= h.canvas_width - h.radius
    /\ h.radius <= py /\ py <= h.canvas_height - h.radius

\* The canvas is at least as wide and as high as the body.
CanvasHoldsBody(h) == h.canvas_width >= 2 * h.radius /\ h.canvas_height >= 2 * h.radius

\* C4, as stated: after every update the position lies in [radius, canvas - radius] on
\* both axes, whatever the canvas size.
C4_PositionInsideCanvas ==
    last.op = "update" => InsideCanvas(behavior.x, behavior.y, behavior)

\* C4, amended: after every update on a canvas at least as wide and as high as the body's
\* diameter, the position lies in [radius, canvas - radius] on both axes.
C4_PositionInsideCanvasThatHoldsBody ==
    (last.op = "update" /\ CanvasHoldsBody(behavior))
        => InsideCanvas(behavior.x, behavior.y, behavior)

\* An update that found the body beyond the far edges and brought it back.
C4_Witness ==
    /\ last.op = "update"
    /\ CanvasHoldsBody(behavior)
    /\ last.pre.x > last.pre.canvas_width - last.pre.radius
    /\ behavior.x = behavior.canvas_width - behavior.radius

\* C5, as stated: after update_movement the target lies in [radius, canvas - radius] on
\* both axes, for every mood and snapshot.
C5_TargetInsideCanvas ==
    last.op = "update" => InsideCanvas(behavior.target_x, behavior.target_y, behavior)

\* C5, amended: after update_movement on a canvas at least as wide and as high as the
\* body's diameter, the target lies in [radius, canvas - radius] on both axes.
C5_TargetInsideCanvasThatHoldsBody ==
    (last.op = "update" /\ CanvasHoldsBody(behavior))
        => InsideCanvas(behavior.target_x, behavior.target_y, behavior)

\* An update of the body dragged to the corner, whose target was raised to the radius.
C5_Witness ==
    /\ last.op = "update"
    /\ CanvasHoldsBody(behavior)
    /\ last.pre.x = 0
    /\ behavior.target_x = behavior.radius

\* The scenario of C9: one apply_physics step from x = radius - 5 px with leftward velocity.
BounceScenario ==
    /\ last.op = "apply_physics"
    /\ last.pre.x = last.pre.radius - 5 * Px
    /\ last.pre.velocity_x < 0

\* The x axis after the step's acceleration, friction and position update.
Integrated ==
    integrate_axis(last.pre.x, last.pre.velocity_x, last.pre.target_x, last.delta_time)

\* C9, as stated: after the step x = radius and velocity_x is -0.7 times the velocity
\* held before the step.
C9_BounceReversesPreviousVelocity ==
    BounceScenario =>
        /\ behavior.x = behavior.radius
        /\ behavior.velocity_x = MulU(last.pre.velocity_x, -bounce)

\* C9, amended: when the position reached by the step is still left of x = radius, then
\* afterwards x = radius and velocity_x is -0.7 times the velocity the step reached after
\* its acceleration and friction, which points rightward when that velocity was leftward.
C9_BounceReversesIntegratedVelocity ==
    (BounceScenario /\ Integrated.p < last.pre.radius) =>
        /\ behavior.x = behavior.radius
        /\ behavior.velocity_x = (-7 * Integrated.v) \div 10
        /\ Integrated.v < 0 => behavior.velocity_x >= 0

\* A bounce after a step of positive length, where friction has changed the velocity.
C9_Witness ==
    /\ BounceScenario
    /\ Integrated.p < last.pre.radius
    /\ last.delta_time > 0
    /\ Integrated.v < 0
    /\ behavior.velocity_x # MulU(last.pre.velocity_x, -bounce)

(***************************************************************************)
(* Properties of the particles                                             *)
(***************************************************************************)
Present(h, id) == \E i \in 1..Len(h.particles) : h.particles[i].id = id

\* After every update: a particle is in the list only while the delta_time it has lived
\* through is less than the life it was created with, its life is what remains and is
\* positive, and the particles the update found are dropped exactly when the delta_time
\* lived through reaches the life at creation.
ParticlesLive ==
    /\ \A i \in 1..Len(behavior.particles) :
          LET q == behavior.particles[i]
          IN  q.life > 0 /\ q.life = q.born - q.age /\ q.age < q.born
    /\ last.op = "update" =>
          \A i \in 1..Len(last.pre.particles) :
             LET q == last.pre.particles[i]
             IN  Present(behavior, q.id) <=> q.age + last.delta_time < q.born

\* C10: a particle is removed in the first tick at which the delta_time elapsed since
\* its creation is at least its life at creation; after update_effects no particle that
\* existed before has life <= 0; and under ticks that keep arriving with positive
\* delta_time every particle is eventually removed (no particle, named by its rank of
\* creation, stays in the list from some point on).
C10_ParticleLifecycle ==
    /\ []ParticlesLive
    /\ \A id \in 1..(MaxEffectCalls + 1) : []<>(~Present(behavior, id))

\* An update that removed a particle whose life was used up exactly.
C10_Witness ==
    /\ last.op = "update"
    /\ \E i \in 1..Len(last.pre.particles) :
          LET q == last.pre.particles[i]
          IN  /\ q.age + last.delta_time = q.born
              /\ q.age > 0
              /\ ~Present(behavior, q.id)

(***************************************************************************)
(* Properties of the sensory system                                        *)
(***************************************************************************)
\* C6: at a firing of the data timer more than 500 ms after the last pointer move, a
\* positive mouse_activity_level strictly decreases, and the level never increases.
C6_ActivityDecaysAfter500ms ==
    last.op = "emit_sensory_data" =>
        /\ sensory.mouse_activity_level <= last.pre.mouse_activity_level
        /\ (last.idle > 500 /\ last.pre.mouse_activity_level > 0)
               => sensory.mouse_activity_level < last.pre.mouse_activity_level

(***************************************************************************)
(* The energy nudge of the mouse wheel                                     *)
(***************************************************************************)
Abs(v) == IF v < 0 THEN -v ELSE v

\* wheelEvent: "dx*dx + dy*dy <= radius*radius" for a wheel event at pixel (ex, ey)
over_body(h, ex, ey) ==
    LET dx == ex * Px - h.x
        dy == ey * Px - h.y
    IN  /\ Abs(dx) <= h.radius
        /\ Abs(dy) <= h.radius
        /\ dx * dx + dy * dy <= h.radius * h.radius

\* A faulty nudge: the result is not capped at 1.0.
nudged_energy_uncapped(energy, delta) == Max(Unit \div 10, energy + (delta * Unit) \div 1200)

\* wheelEvent: max(0.1, min(1.0, energy + (delta / 120) * 0.1)), delta = angleDelta().y()
nudged_energy(energy, delta) ==
    Max(Unit \div 10, Min(Unit, energy + (delta * Unit) \div 1200))

\* KovrychOverlay.wheelEvent at pixel (ex, ey) with wheel rotation delta
WheelEvent(ex, ey, delta) ==
    /\ brain' = IF over_body(behavior, ex, ey)
                THEN [brain EXCEPT !.energy = nudged_energy(@, delta)]
                ELSE brain
    /\ last' = [op |-> "wheelEvent", pre |-> brain, delta |-> delta,
                over |-> over_body(behavior, ex, ey)]
    /\ calls' = calls + 1
    /\ UNCHANGED <<behavior, sensory, now, inserted>>

(***************************************************************************)
(* Particle creation                                                       *)
(***************************************************************************)
\* The ticks offered: a draw of 0 (the smallest random.random() returns) and the largest
\* draw, over a full step, and a draw of 0 over a step of no length.
SpawnInputs ==
    { [elapsed |-> 100, d |-> Draws(0, 0, <<Unit, 0>>, 0, 0, MidLife)],
      [elapsed |-> 100, d |-> Draws(0, 0, <<Unit, 0>>, 0, NeverSpawn, MidLife)],
      [elapsed |-> 0,   d |-> Draws(0, 0, <<Unit, 0>>, 0, 0, MidLife)] }

\* Wheel rotations over the centre of the screen, where the body starts.
SpawnWheel == { 600, -360 }
MaxSpawnCalls == 4

\* The particle system under ticks, every mood and energy nudges.
NextSpawn ==
    /\ calls < MaxSpawnCalls
    /\ \/ \E i \in SpawnInputs : BehaviorUpdate(Snapshot(960, 540, "background"), i.elapsed, i.d)
       \/ \E m \in Moods : SetMood(m)
       \/ \E w \in SpawnWheel : WheelEvent(ScreenWidth \div 2, ScreenHeight \div 2, w)
    /\ UNCHANGED <<threads, mappings>>

SpecSpawn == Init /\ [][NextSpawn]_vars

\* The particles of h that the update did not find in the list.
Created(h, pre) ==
    {i \in 1..Len(h.particles) : ~(\E j \in 1..Len(pre.particles) :
                                      pre.particles[j].id = h.particles[i].id)}

\* C11: one update_effects call creates no particle or one, whatever the value of
\* count x delta_time x energy, and none under a mood without a template (calm, sleepy,
\* annoyed, sad), where the number of particles does not increase.
C11_AtMostOneParticlePerTick ==
    last.op = "update" =>
        /\ Cardinality(Created(behavior, last.pre)) <= 1
        /\ Len(behavior.particles) <= Len(last.pre.particles) + 1
        /\ brain.mood \in {"calm", "sleepy", "annoyed", "sad"} =>
              /\ Created(behavior, last.pre) = {}
              /\ Len(behavior.particles) <= Len(last.pre.particles)

\* A tick whose spawn chance exceeds 1 (alert at energy 1.0 over 0.1 s) created one
\* particle next to an older one.
C11_Witness ==
    /\ last.op = "update"
    /\ brain.mood = "alert"
    /\ spawn_chance(effect_templates.alert, last.delta_time, get_current_mood_state(brain)) > Unit
    /\ Len(last.pre.particles) >= 1
    /\ Cardinality(Created(behavior, last.pre)) = 1

(***************************************************************************)
(* Two runs fed the same snapshots                                         *)
(*                                                                         *)
(* The second run's brain, body and clock are kept in last.twin.  Both     *)
(* runs get the same snapshot and the same noise values in every tick;     *)
(* each run reads its own clock and makes its own random.random() and      *)
(* random.choice() draws, which the program takes from the shared          *)
(* generator that nothing seeds before a tick.                             *)
(***************************************************************************)
\* What a run contributes to a tick by itself: the clock advance, the draws of
\* update_mood and the jitter draw of update_movement.
RunDraws ==
    { [elapsed |-> 100, bd |-> NoDrift, jitter |-> 0],
      [elapsed |-> 50,  bd |-> NoDrift, jitter |-> 0],
      [elapsed |-> 100, bd |-> NoDrift, jitter |-> Unit],
      [elapsed |-> 100, bd |-> [branch |-> Unit \div 2, drift |-> (999 * Unit) \div 1000,
                                choice |-> "excited"], jitter |-> 0] }

\* The snapshots fed to both runs, and the noise value both runs compute.
TwinSnapshots == { Snapshot(960, 540, "background"), Snapshot(100, 100, "active") }
TwinNoise == { Unit, -Unit }
MaxTwinCalls == 2

\* KovrychOverlay.on_sensory_data in one run: brain.update_mood, then behavior.update.
on_sensory_data(run, env, noise, r) ==
    LET t == run.now + r.elapsed
        b == update_mood(run.brain, env, t, r.bd)
    IN  [brain    |-> b,
         behavior |-> update(run.behavior, b, env, t,
                             Draws(noise, r.jitter, <<Unit, 0>>, 0, NeverSpawn, MidLife)),
         now      |-> t]

InitTwin ==
    /\ brain = [BrainNew(ProgramStart) EXCEPT
                   !.zones = update_zones(@, SensoryNew(ProgramStart))]
    /\ behavior = BehaviorNew(ScreenWidth * Px, ScreenHeight * Px, ProgramStart)
    /\ sensory = SensoryNew(ProgramStart)
    /\ now = ProgramStart
    /\ calls = 0
    /\ last = [op |-> "init", twin |-> [brain |-> brain, behavior |-> behavior, now |-> now]]
    /\ inserted = [on |-> TRUE, recs |-> << >>]
    /\ threads = ThreadsIdle
    /\ mappings = << >>

\* One snapshot handled by both runs.
TwinTick(env, noise, r1, r2) ==
    LET first  == on_sensory_data([brain |-> brain, behavior |-> behavior, now |-> now],
                                  env, noise, r1)
        second == on_sensory_data(last.twin, env, noise, r2)
    IN  /\ brain' = first.brain
        /\ behavior' = first.behavior
        /\ now' = first.now
        /\ inserted' = [inserted EXCEPT !.recs =
                           Append(@, first.brain.activity_history[Len(first.brain.activity_history)])]
        /\ last' = [op |-> "twin_tick", twin |-> second, same_draws |-> r1 = r2]
        /\ calls' = calls + 1
        /\ UNCHANGED sensory

NextTwin ==
    /\ calls < MaxTwinCalls
    /\ \E env \in TwinSnapshots, noise \in TwinNoise, r1 \in RunDraws, r2 \in RunDraws :
          TwinTick(env, noise, r1, r2)
    /\ UNCHANGED <<threads, mappings>>

SpecTwin == InitTwin /\ [][NextTwin]_vars

\* C12: two runs fed the same snapshots with the same noise have the same mood and the
\* same position after every tick.
C12_SameSnapshotsSameTrajectories ==
    /\ brain.mood = last.twin.brain.mood
    /\ behavior.x = last.twin.behavior.x
    /\ behavior.y = last.twin.behavior.y

(***************************************************************************)
(* Properties of import_state                                              *)
(***************************************************************************)
\* C13: after import_state with a 'mood' that is not one of the eight mood names, the
\* brain's mood is calm.
C13_UnknownMoodFallsBackToCalm ==
    (/\ last.op = "import_state"
     /\ "mood" \in DOMAIN last.state
     /\ last.state.mood \notin Moods) => brain.mood = "calm"

ScalarFields == {"mood", "energy", "curiosity", "last_activity"}

\* C14: for every non-empty mapping, import_state returns True, each of mood, energy,
\* curiosity and last_activity takes the imported value if the mapping has it and keeps
\* its value otherwise, and activity_history takes the imported value if the mapping has
\* it as a list and keeps its value otherwise.
C14_ImportFrame ==
    (last.op = "import_state" /\ DOMAIN last.state # {}) =>
        /\ last.ok
        /\ \A f \in ScalarFields :
              brain[f] = IF f \in DOMAIN last.state THEN last.state[f] ELSE last.pre[f]
        /\ brain.activity_history =
              IF "activity_history" \in DOMAIN last.state /\ last.state.activity_history.is_list
              THEN last.state.activity_history.items
              ELSE last.pre.activity_history
        /\ brain.zones = last.pre.zones

\* An import that changed the energy and kept a mood and a history that a tick had made
\* different from the configured ones.
C14_Witness ==
    /\ last.op = "import_state"
    /\ "energy" \in DOMAIN last.state
    /\ "mood" \notin DOMAIN last.state
    /\ "activity_history" \notin DOMAIN last.state
    /\ brain.energy # last.pre.energy
    /\ brain.mood # initial_mood
    /\ brain.activity_history # << >>

\* C16: after import_state the stored energy and curiosity are in [0,1], whatever the
\* imported values.
C16_ImportKeepsUnitRange ==
    last.op = "import_state" => InUnit(brain.energy) /\ InUnit(brain.curiosity)

(***************************************************************************)
(* import_state for any argument                                           *)
(*                                                                         *)
(* The 'brain' entry of a state file is any JSON value:                    *)
(* [kind |-> its Python type, truthy |-> bool(value), fields |-> its       *)
(* entries when it is a dict].                                             *)
(***************************************************************************)
JsonValue(kind, truthy) == [kind |-> kind, truthy |-> truthy, fields |-> << >>]

ImportValues ==
    { [kind |-> "dict", truthy |-> DOMAIN st # {}, fields |-> st] : st \in ImportStates }
    \cup
    { JsonValue("NoneType", FALSE),
      JsonValue("int", FALSE), JsonValue("int", TRUE),
      JsonValue("bool", TRUE),
      JsonValue("str", FALSE), JsonValue("str", TRUE),
      JsonValue("list", FALSE), JsonValue("list", TRUE) }

\* import_state: the body of the try statement.  state.get raises AttributeError in the
\* first assignment unless the value is a dict, and nothing else in the body raises.
\* [raised |-> an exception left the body, brain |-> the brain at that point]
import_state_body(b, v) ==
    IF v.kind # "dict"
    THEN [raised |-> TRUE, brain |-> b]
    ELSE [raised |-> FALSE, brain |-> import_state(b, v.fields).brain]

\* A faulty import: the exception of the body is not caught.
import_state_value_uncaught(b, v) ==
    IF ~v.truthy
    THEN [raised |-> FALSE, ok |-> FALSE, brain |-> b]
    ELSE LET r == import_state_body(b, v)
         IN  [raised |-> r.raised, ok |-> ~r.raised, brain |-> r.brain]

\* import_state(state) for any value: "if not state: return False", then the body under
\* "except Exception: return False".
\* [raised |-> an exception reaches the caller, ok |-> the value returned, brain]
import_state_value(b, v) ==
    IF ~v.truthy
    THEN [raised |-> FALSE, ok |-> FALSE, brain |-> b]
    ELSE LET r == import_state_body(b, v)
         IN  [raised |-> FALSE, ok |-> ~r.raised, brain |-> r.brain]

\* main(): overlay.brain.import_state(import_state['brain'])
ImportValue(v) ==
    LET r == import_state_value(brain, v) IN
    /\ brain' = r.brain
    /\ inserted' = IF r.brain.activity_history = brain.activity_history
                   THEN inserted
                   ELSE [on |-> FALSE, recs |-> << >>]
    /\ last' = [op |-> "import_value", value |-> v, ok |-> r.ok, raised |-> r.raised,
                pre |-> brain]
    /\ calls' = calls + 1
    /\ UNCHANGED <<behavior, sensory, now>>

\* The ticks that precede an import: a quiet tick after 11 s, a tick that drifts to excited.
ImportTicks ==
    { [env |-> QuietSnapshot, elapsed |-> 11 * Sec, draws |-> NoDrift],
      [env |-> QuietSnapshot, elapsed |-> 10,
       draws |-> [branch |-> Unit \div 2, drift |-> (999 * Unit) \div 1000, choice |-> "excited"]] }
MaxImportCalls == 3

NextImport ==
    /\ calls < MaxImportCalls
    /\ \/ \E i \in ImportTicks : UpdateMood(i.env, i.elapsed, i.draws)
       \/ \E v \in ImportValues : ImportValue(v)
    /\ UNCHANGED <<threads, mappings>>

SpecImport == Init /\ [][NextImport]_vars

\* C15: import_state raises for no argument and returns a boolean; when it returns False
\* the mood, energy, curiosity, last_activity and activity_history are unchanged.
C15_ImportNeverRaises ==
    last.op = "import_value" =>
        /\ ~last.raised
        /\ last.ok \in BOOLEAN
        /\ ~last.ok => /\ \A f \in ScalarFields : brain[f] = last.pre[f]
                       /\ brain.activity_history = last.pre.activity_history

\* An import of a non-empty list, after a tick: the AttributeError was caught.
C15_Witness ==
    /\ last.op = "import_value"
    /\ last.value.kind = "list"
    /\ last.value.truthy
    /\ ~last.ok
    /\ last.pre.activity_history # << >>

(***************************************************************************)
(* The mood under ticks and forced moods                                   *)
(***************************************************************************)
\* The spelling of a mood name: its characters, each [ch |-> letter, up |-> upper case].
Letters(word) == [i \in DOMAIN word |-> [ch |-> word[i], up |-> FALSE]]

Spell(m) ==
    CASE m = "calm"       -> Letters(<<"c", "a", "l", "m">>)
      [] m = "curious"    -> Letters(<<"c", "u", "r", "i", "o", "u", "s">>)
      [] m = "excited"    -> Letters(<<"e", "x", "c", "i", "t", "e", "d">>)
      [] m = "alert"      -> Letters(<<"a", "l", "e", "r", "t">>)
      [] m = "annoyed"    -> Letters(<<"a", "n", "n", "o", "y", "e", "d">>)
      [] m = "sad"        -> Letters(<<"s", "a", "d">>)
      [] m = "sleepy"     -> Letters(<<"s", "l", "e", "e", "p", "y">>)
      [] m = "reflective" -> Letters(<<"r", "e", "f", "l", "e", "c", "t", "i", "v", "e">>)

\* The string with the given spelling: a mood name, or a string that is none.
Unspell(word) ==
    IF \E m \in Moods : Spell(m) = word
    THEN CHOOSE m \in Moods : Spell(m) = word
    ELSE "not a mood name"

\* str.capitalize and str.lower
capitalize(word) == [i \in DOMAIN word |-> [word[i] EXCEPT !.up = (i = 1)]]
lower(word)      == [i \in DOMAIN word |-> [word[i] EXCEPT !.up = FALSE]]

\* The items of the debug panel's mood combo box: mood.capitalize() for each mood key.
mood_combo == { capitalize(Spell(m)) : m \in Moods }

\* KovrychDebugPanel.on_set_mood with the combo box showing `item`
OnSetMood(item) ==
    /\ brain' = [brain EXCEPT !.mood = Unspell(lower(item))]
    /\ last' = [op |-> "on_set_mood", pre |-> brain]
    /\ calls' = calls + 1
    /\ UNCHANGED <<behavior, sensory, now, inserted>>

\* KovrychDebugPanel.on_reset_state, `elapsed` ms after the previous clock reading
OnResetState(elapsed) ==
    /\ now' = now + elapsed
    /\ brain' = [brain EXCEPT !.mood = brain.config.initial_mood,
                              !.energy = brain.config.initial_energy,
                              !.curiosity = brain.config.initial_curiosity,
                              !.last_activity = now + elapsed]
    /\ last' = [op |-> "on_reset_state", pre |-> brain]
    /\ calls' = calls + 1
    /\ UNCHANGED <<behavior, sensory, inserted>>

\* Configurations as load_config returns them: the defaults, and the defaults updated
\* with the entries of a config.json.
ConfigFiles ==
    { DEFAULT_CONFIG,
      [DEFAULT_CONFIG EXCEPT !.initial_mood = "sleepy", !.initial_energy = (2 * Unit) \div 10],
      [DEFAULT_CONFIG EXCEPT !.initial_mood = "grumpy"] }

\* The names handed to set_mood, and the ticks: quiet, and drifting to each mood.
ForcedMoods == Moods \cup {"grumpy"}
MoodTicks ==
    { [env |-> QuietSnapshot, elapsed |-> 11 * Sec, draws |-> NoDrift] }
    \cup
    { [env |-> QuietSnapshot, elapsed |-> 10,
       draws |-> [branch |-> Unit \div 2, drift |-> (999 * Unit) \div 1000, choice |-> m]] :
        m \in Moods }
MaxMoodCalls == 2

\* Construction from a configuration.
InitMood ==
    /\ \E config \in ConfigFiles :
          brain = [BrainFromConfig(config, ProgramStart) EXCEPT
                      !.zones = update_zones(@, SensoryNew(ProgramStart))]
    /\ behavior = BehaviorNew(ScreenWidth * Px, ScreenHeight * Px, ProgramStart)
    /\ sensory = SensoryNew(ProgramStart)
    /\ now = ProgramStart
    /\ calls = 0
    /\ last = NoOp
    /\ inserted = [on |-> TRUE, recs |-> << >>]
    /\ threads = ThreadsIdle
    /\ mappings = << >>

NextMood ==
    /\ calls < MaxMoodCalls
    /\ \/ \E i \in MoodTicks : UpdateMood(i.env, i.elapsed, i.draws)
       \/ \E m \in ForcedMoods : SetMood(m)
       \/ \E item \in mood_combo : OnSetMood(item)
       \/ OnResetState(10)
    /\ UNCHANGED <<threads, mappings>>

SpecMood == InitMood /\ [][NextMood]_vars

\* C17: in every reachable state brain.mood is one of the eight moods.
C17_MoodIsOneOfEight == brain.mood \in Moods

(***************************************************************************)
(* Properties of the manual overrides                                      *)
(***************************************************************************)
\* C18: after set_position(x, y) the position and the target are (x, y) and the velocity
\* is (0, 0); every other field of the body (radius, pulse and colour phases, particles,
\* transition state among them) and the brain are unchanged.
C18_SetPositionFrame ==
    last.op = "set_position" =>
        /\ behavior.x = last.x /\ behavior.y = last.y
        /\ behavior.target_x = last.x /\ behavior.target_y = last.y
        /\ behavior.velocity_x = 0 /\ behavior.velocity_y = 0
        /\ \A f \in DOMAIN behavior \ {"x", "y", "target_x", "target_y",
                                       "velocity_x", "velocity_y"} :
              behavior[f] = last.pre[f]
        /\ brain = last.brain

\* A set_position of a moving body that has a particle, to another place.
C18_Witness ==
    /\ last.op = "set_position"
    /\ last.pre.velocity_x # 0
    /\ last.pre.particles # << >>
    /\ last.pre.x # last.x
    /\ last.pre.target_x # last.x

\* The wheel events offered: over the centre of the screen and in its corner; one notch
\* is 120, a high-resolution wheel sends fractions of it.
WheelPlaces == { <<ScreenWidth \div 2, ScreenHeight \div 2>>, <<5, 5>> }
WheelDeltas == { 120, -120, 600, -600, 15, -15 }

\* Saved energies loaded before the wheel is used, and drags of the body.
WheelImports == { [energy |-> Unit \div 20], [energy |-> 0], [energy |-> Unit] }
WheelDrags   == { <<0, 0>>, <<(ScreenWidth \div 2) * Px + 10 * Px, (ScreenHeight \div 2) * Px>> }
MaxWheelCalls == 3

NextWheel ==
    /\ calls < MaxWheelCalls
    /\ \/ \E w \in WheelPlaces, delta \in WheelDeltas : WheelEvent(w[1], w[2], delta)
       \/ \E st \in WheelImports : ImportState(st)
       \/ \E p \in WheelDrags : SetPosition(p[1], p[2])
    /\ UNCHANGED <<threads, mappings>>

SpecWheel == Init /\ [][NextWheel]_vars

\* (delta / 120) * 0.1 for the wheel rotation of the event
WheelAdjustment == (last.delta * Unit) \div 1200

\* C19, as stated: a wheel event over the body sets energy to energy + adjustment clamped
\* to [0, 1]; a wheel event elsewhere leaves energy unchanged.
C19_WheelNudgeClampedToUnit ==
    (last.op = "wheelEvent" /\ InUnit(last.pre.energy)) =>
        brain.energy = IF last.over
                       THEN Max(0, Min(Unit, last.pre.energy + WheelAdjustment))
                       ELSE last.pre.energy

\* C19, amended: a wheel event over the body sets energy to energy + adjustment clamped
\* to [0.1, 1]; a wheel event elsewhere leaves energy unchanged; nothing else of the brain
\* changes.
C19_WheelNudgeClampedToTenth ==
    (last.op = "wheelEvent" /\ InUnit(last.pre.energy)) =>
        /\ brain.energy =
              IF ~last.over THEN last.pre.energy
              ELSE IF last.pre.energy + WheelAdjustment < Unit \div 10 THEN Unit \div 10
              ELSE IF last.pre.energy + WheelAdjustment > Unit THEN Unit
              ELSE last.pre.energy + WheelAdjustment
        /\ [brain EXCEPT !.energy = last.pre.energy] = last.pre

\* A wheel event over the body that would take the energy below 0.1.
C19_Witness ==
    /\ last.op = "wheelEvent"
    /\ last.over
    /\ last.pre.energy > Unit \div 10
    /\ last.pre.energy + WheelAdjustment < Unit \div 10
    /\ last.pre.energy + WheelAdjustment > 0

(***************************************************************************)
(* The pointer listener and the tick as two threads                        *)
(*                                                                         *)
(* pynput calls on_mouse_move on its listener thread; the data timer calls *)
(* emit_sensory_data on the Qt thread.  Neither takes a lock, so the       *)
(* statements of the two calls interleave.  A step is one statement of     *)
(* on_mouse_move, or one read of get_sensory_data.                         *)
(***************************************************************************)
\* on_mouse_move: the statement after the one at pc
ListenerNext(pc) ==
    CASE pc = "last_mouse" -> "mouse_x"
      [] pc = "mouse_x"    -> "mouse_y"
      [] pc = "mouse_y"    -> "velocity_x"
      [] pc = "velocity_x" -> "velocity_y"
      [] pc = "velocity_y" -> "activity"
      [] pc = "activity"   -> "move_time"
      [] pc = "move_time"  -> "zones"
      [] pc = "zones"      -> "idle"

\* on_mouse_move: the effect of the statement at pc on the sensory system
ListenerStatement(s, l, t) ==
    CASE l.pc = "last_mouse" -> [s EXCEPT !.last_mouse_x = s.mouse_x, !.last_mouse_y = s.mouse_y]
      [] l.pc = "mouse_x"    -> [s EXCEPT !.mouse_x = l.x]
      [] l.pc = "mouse_y"    -> [s EXCEPT !.mouse_y = l.y]
      [] l.pc = "velocity_x" -> [s EXCEPT !.mouse_velocity_x = s.mouse_x - s.last_mouse_x]
      [] l.pc = "velocity_y" -> [s EXCEPT !.mouse_velocity_y = s.mouse_y - s.last_mouse_y]
      [] l.pc = "activity"   -> [s EXCEPT !.mouse_activity_level =
                                     activity_of_speed(s.mouse_velocity_x, s.mouse_velocity_y)]
      [] l.pc = "move_time"  -> [s EXCEPT !.last_mouse_move_time = t, !.mouse_active = TRUE]
      [] l.pc = "zones"      -> s

\* The listener thread receives a pointer event at (px, py).
ListenerStart(px, py) ==
    LET prev == threads.events[Len(threads.events)] IN
    /\ threads.listener.pc = "idle"
    /\ threads' = [threads EXCEPT
                      !.listener = [pc |-> "last_mouse", x |-> px, y |-> py],
                      !.events = Append(@, [x |-> px, y |-> py,
                                            vx |-> px - prev.x, vy |-> py - prev.y])]
    /\ last' = [op |-> "pointer_event"]
    /\ calls' = calls + 1
    /\ UNCHANGED <<brain, behavior, sensory, now, inserted>>

\* The listener thread runs its next statement; the last one is update_zones_from_mouse.
ListenerStep ==
    LET l == threads.listener IN
    /\ l.pc # "idle"
    /\ sensory' = ListenerStatement(sensory, l, now)
    /\ brain' = IF l.pc = "zones"
                THEN [brain EXCEPT !.zones = update_zones_from_mouse(@, sensory)]
                ELSE brain
    /\ threads' = [threads EXCEPT !.listener.pc = ListenerNext(l.pc)]
    /\ last' = [op |-> "listener", pc |-> l.pc, zones |-> brain.zones]
    /\ UNCHANGED <<behavior, now, calls, inserted>>

\* get_sensory_data: the step after the one at pc
TickNext(pc) ==
    CASE pc = "simulate" -> "detect"
      [] pc = "detect"   -> "read_x"
      [] pc = "read_x"   -> "read_y"
      [] pc = "read_y"   -> "read_vx"
      [] pc = "read_vx"  -> "read_vy"
      [] pc = "read_vy"  -> "emit"

\* The data timer fires, `elapsed` ms after the previous clock reading: emit_sensory_data
\* runs simulate_visual_changes and calls get_sensory_data.
TickStart(elapsed) ==
    /\ threads.tick.pc = "idle"
    /\ now' = now + elapsed
    /\ sensory' = simulate_visual_changes(sensory, now + elapsed)
    /\ threads' = [threads EXCEPT !.tick.pc = "simulate"]
    /\ last' = [op |-> "timer"]
    /\ calls' = calls + 1
    /\ UNCHANGED <<brain, behavior, inserted>>

\* get_sensory_data: simulate_visual_changes, detect_active_zone, then the reads of the
\* pointer fields in the order of the dict display.
TickStep ==
    LET k == threads.tick IN
    /\ k.pc \in {"simulate", "detect", "read_x", "read_y", "read_vx", "read_vy"}
    /\ sensory' = IF k.pc = "simulate" THEN simulate_visual_changes(sensory, now) ELSE sensory
    /\ threads' = [threads EXCEPT !.tick =
          [CASE k.pc = "simulate" -> k
             [] k.pc = "detect"   -> [k EXCEPT !.zone = detect_active_zone(brain.zones, sensory)]
             [] k.pc = "read_x"   -> [k EXCEPT !.mouse_x = sensory.mouse_x]
             [] k.pc = "read_y"   -> [k EXCEPT !.mouse_y = sensory.mouse_y]
             [] k.pc = "read_vx"  -> [k EXCEPT !.mouse_velocity_x = sensory.mouse_velocity_x]
             [] k.pc = "read_vy"  -> [k EXCEPT !.mouse_velocity_y = sensory.mouse_velocity_y]
           EXCEPT !.pc = TickNext(k.pc)]]
    /\ last' = [op |-> "tick", pc |-> k.pc]
    /\ UNCHANGED <<brain, behavior, now, calls, inserted>>

\* get_sensory_data reads the remaining fields and returns; the data_updated signal runs
\* KovrychOverlay.on_sensory_data with the snapshot.
TickEmit(bd, hd) ==
    LET k   == threads.tick
        env == [sensory_data(sensory, brain.zones, now) EXCEPT
                   !.zone = k.zone, !.mouse_x = k.mouse_x, !.mouse_y = k.mouse_y,
                   !.mouse_velocity_x = k.mouse_velocity_x,
                   !.mouse_velocity_y = k.mouse_velocity_y]
        b   == update_mood(brain, env, now, bd)
    IN  /\ k.pc = "emit"
        /\ brain' = b
        /\ behavior' = update(behavior, b, env, now, hd)
        /\ inserted' = [inserted EXCEPT !.recs =
                           Append(@, b.activity_history[Len(b.activity_history)])]
        /\ threads' = [threads EXCEPT !.tick.pc = "idle"]
        /\ last' = [op |-> "snapshot", env |-> env, zones |-> brain.zones]
        /\ UNCHANGED <<sensory, now, calls>>

\* Pointer events and timer firings started in all; every started call runs to its end.
MaxThreadCalls == 2
ThreadMoves == { <<500, 400>>, <<1800, 50>> }

NextThreads ==
    /\ \/ /\ calls < MaxThreadCalls
          /\ \/ \E p \in ThreadMoves : ListenerStart(p[1], p[2])
             \/ TickStart(100)
       \/ ListenerStep
       \/ TickStep
       \/ TickEmit(NoDrift, QuietTick.d)
    /\ UNCHANGED mappings

SpecThreads == Init /\ [][NextThreads]_vars

\* The snapshot a tick builds when the pointer event e is the latest one: the position
\* and velocity of e, and the zone found with the 'active' rectangle centred on e.
SnapshotOfEvent(env, e, zones) ==
    LET at == [mouse_x |-> e.x, mouse_y |-> e.y] IN
    /\ env.mouse_x = e.x /\ env.mouse_y = e.y
    /\ env.mouse_velocity_x = e.vx /\ env.mouse_velocity_y = e.vy
    /\ env.zone = detect_active_zone(update_zones_from_mouse(zones, at), at)

\* C20: under every interleaving each snapshot is that of one pointer event (position,
\* velocity and zone all from it), and the listener thread does not write brain.zones.
C20_SnapshotsConsistent ==
    /\ last.op = "snapshot" =>
          \E i \in 1..Len(threads.events) :
             SnapshotOfEvent(last.env, threads.events[i], last.zones)
    /\ last.op = "listener" => brain.zones = last.zones

(***************************************************************************)
(* One snapshot handled by the overlay                                     *)
(***************************************************************************)
\* KovrychOverlay.on_sensory_data(data), `elapsed` ms after the previous clock reading:
\* brain.update_mood(data), then behavior.update(data).  last.rules holds the brain after
\* each of the first three rules of update_mood.
OnSensoryData(env, elapsed, bd, hd) ==
    LET t  == now + elapsed
        b1 == inactivity_rule(brain, t)
        b2 == pointer_rule(b1, env, t, bd)
        b3 == notification_rule(b2, env, t)
        b  == update_mood(brain, env, t, bd)
    IN  /\ now' = t
        /\ brain' = b
        /\ behavior' = update(behavior, b, env, t, hd)
        /\ inserted' = [inserted EXCEPT !.recs =
                           Append(@, b.activity_history[Len(b.activity_history)])]
        /\ last' = [op |-> "on_sensory_data", env |-> env, pre |-> brain, body |-> behavior,
                    bd |-> bd, hd |-> hd,
                    rules |-> [inactivity |-> b1, pointer |-> b2, notification |-> b3],
                    delta_time |-> capped_delta_time(behavior, t)]
        /\ calls' = calls + 1
        /\ UNCHANGED sensory

(***************************************************************************)
(* Partial snapshots                                                       *)
(***************************************************************************)
\* The snapshot without the given fields
Without(env, fields) == [k \in DOMAIN env \ fields |-> env[k]]

\* Full snapshots: high pointer activity in the productivity zone, very high pointer
\* activity in the active zone, a visual change in the notification zone.
FullSnapshots ==
    { [Snapshot(900, 500, "productivity") EXCEPT !.mouse_activity = (8 * Unit) \div 10],
      [Snapshot(100, 100, "active") EXCEPT !.mouse_activity = (95 * Unit) \div 100],
      [Snapshot(1800, 50, "notification") EXCEPT !.mouse_activity = (8 * Unit) \div 10,
                                                  !.visual_change = (6 * Unit) \div 10] }

\* The fields a snapshot may lack
OptionalFields == {"mouse_x", "mouse_y", "zone", "mouse_activity", "visual_change"}

PartialSnapshots == { Without(env, f) : env \in FullSnapshots, f \in SUBSET OptionalFields }

\* The draws of update_mood with which every probabilistic branch taken changes the mood.
BranchFires == [branch |-> (9 * Unit) \div 10, drift |-> Unit \div 2, choice |-> "calm"]

PartialElapsed  == { 100, 11 * Sec }
PartialMoods    == { "curious", "alert", "sad" }
MaxPartialCalls == 2

NextPartial ==
    /\ calls < MaxPartialCalls
    /\ \/ \E env \in PartialSnapshots, e \in PartialElapsed :
             OnSensoryData(env, e, BranchFires, QuietTick.d)
       \/ \E m \in PartialMoods : SetMood(m)
    /\ UNCHANGED <<threads, mappings>>

SpecPartial == Init /\ [][NextPartial]_vars

SameAffect(b, c) == b.mood = c.mood /\ b.energy = c.energy

\* The tick ran to its end: one record was appended, holding the snapshot as given and
\* the mood and energy reached, and the body was updated at the tick's clock value.
TickCompleted ==
    /\ brain.activity_history =
          Append(last.pre.activity_history, ActivityRecord(last.env, now, brain))
    /\ behavior.last_update_time = now
    /\ behavior.frame_time = last.delta_time

\* C21, as stated: for a snapshot with any of its fields missing the tick completes, a
\* mood rule that reads a missing field changes neither mood nor energy, and exactly one
\* activity record is appended.
C21_RuleWithMissingFieldChangesNothing ==
    last.op = "on_sensory_data" =>
        /\ TickCompleted
        /\ ({"mouse_activity", "zone"} \ DOMAIN last.env # {})
              => SameAffect(last.rules.pointer, last.rules.inactivity)
        /\ ({"zone", "visual_change"} \ DOMAIN last.env # {})
              => SameAffect(last.rules.notification, last.rules.pointer)

\* C21, amended: the tick completes and appends exactly one activity record; without
\* mouse_activity the pointer rule changes neither mood nor energy; without zone or
\* without visual_change the notification rule changes neither; without zone the pointer
\* rule changes the mood only when mouse_activity > 0.9 (to excited, the zone not being
\* read), and still raises energy by 0.05 (capped at 1.0) when mouse_activity > 0.7.
C21_MissingFieldReadsAsAbsent ==
    last.op = "on_sensory_data" =>
        /\ TickCompleted
        /\ "mouse_activity" \notin DOMAIN last.env
              => SameAffect(last.rules.pointer, last.rules.inactivity)
        /\ ({"zone", "visual_change"} \ DOMAIN last.env # {})
              => SameAffect(last.rules.notification, last.rules.pointer)
        /\ ("zone" \notin DOMAIN last.env /\ "mouse_activity" \in DOMAIN last.env) =>
              /\ last.rules.pointer.mood # last.rules.inactivity.mood
                    => (/\ last.env.mouse_activity > (9 * Unit) \div 10
                        /\ last.rules.pointer.mood = "excited")
              /\ last.env.mouse_activity > (7 * Unit) \div 10
                    => last.rules.pointer.energy =
                          Min(Unit, last.rules.inactivity.energy + Unit \div 20)

\* A tick in mood curious whose snapshot lacked zone, mouse_x and visual_change but
\* reported high pointer activity: the energy rose, the mood stayed.
C21_Witness ==
    /\ last.op = "on_sensory_data"
    /\ {"zone", "mouse_x", "visual_change"} \cap DOMAIN last.env = {}
    /\ "mouse_activity" \in DOMAIN last.env
    /\ last.pre.mood = "curious"
    /\ brain.mood = "curious"
    /\ brain.energy = last.pre.energy + Unit \div 20
    /\ Len(brain.activity_history) = Len(last.pre.activity_history) + 1

(***************************************************************************)
(* The rules of update_mood, one by one                                    *)
(*                                                                         *)
(* last.rules.inactivity is the brain after rule 1 of the tick just        *)
(* performed, last.rules.pointer the brain after rule 2.                   *)
(***************************************************************************)
\* The moods the pointer rule may change to, for a snapshot
PointerRuleMoods(env) ==
    IF Get(env, "mouse_activity", 0) > (9 * Unit) \div 10 THEN {"excited"}
    ELSE IF Get(env, "zone", "") = "productivity" THEN {"calm"}
    ELSE IF Get(env, "zone", "") = "active" THEN {"curious"}
    ELSE {}

\* C22: with mouse_activity > 0.7 the pointer rule sets energy to min(1.0, energy + 0.05)
\* and last_activity to the tick time, and changes the mood, if at all, to excited when
\* mouse_activity > 0.9 (whatever the zone), else to calm in zone productivity, else to
\* curious in zone active, else not at all; with mouse_activity <= 0.7 it changes
\* neither energy, last_activity nor mood.
C22_PointerRuleBranches ==
    last.op = "update_mood" =>
        LET before == last.rules.inactivity
            after  == last.rules.pointer
        IN  IF Get(last.env, "mouse_activity", 0) > (7 * Unit) \div 10
            THEN /\ after.energy = Min(Unit, before.energy + Unit \div 20)
                 /\ after.last_activity = now
                 /\ after.mood \in {before.mood} \cup PointerRuleMoods(last.env)
            ELSE /\ after.energy = before.energy
                 /\ after.last_activity = before.last_activity
                 /\ after.mood = before.mood

\* A tick with mouse_activity 0.95 in the productivity zone whose draw turned a mood
\* other than excited into excited, not calm.
C22_Witness ==
    /\ last.op = "update_mood"
    /\ Get(last.env, "mouse_activity", 0) > (9 * Unit) \div 10
    /\ Get(last.env, "zone", "") = "productivity"
    /\ last.rules.inactivity.mood \notin {"excited", "calm"}
    /\ last.rules.pointer.mood = "excited"
    /\ last.rules.pointer.energy = last.rules.inactivity.energy + Unit \div 20

\* Saved states with an energy anywhere in [0,1], and with a recent last_activity.
DecayImports ==
    { [energy |-> e] : e \in {0, Unit \div 20, Unit \div 10, (3 * Unit) \div 10,
                              (31 * Unit) \div 100, Unit} }
    \cup { [mood |-> "sleepy", energy |-> (2 * Unit) \div 10] }

\* Time between two clock readings: a tick, exactly 10 s, just over 10 s, 11 s, 250 s.
DecayElapsed == {100, 10 * Sec, 10 * Sec + 1, 11 * Sec, 250 * Sec}
MaxDecayCalls == 3

\* The brain under imports of a saved energy and quiet or busy ticks.
NextDecay ==
    /\ calls < MaxDecayCalls
    /\ \/ \E st \in DecayImports : ImportState(st)
       \/ \E e \in DecayElapsed, env \in {QuietSnapshot, BusySnapshot} :
             UpdateMood(env, e, NoDrift)
    /\ UNCHANGED <<threads, mappings>>

SpecDecay == Init /\ [][NextDecay]_vars

\* The time since last_activity at the tick just performed
SinceLastActivity == now - last.pre.last_activity

\* C23, as stated: in a tick more than 10 s after last_activity the inactivity rule leaves
\* an energy that is at most the energy before it and at least 0.1, for every prior
\* energy in [0,1]; in a tick at most 10 s after, it changes neither energy nor mood.
C23_InactivityOnlyLowersEnergy ==
    (last.op = "update_mood" /\ InUnit(last.pre.energy)) =>
        IF SinceLastActivity > 10 * Sec
        THEN /\ last.rules.inactivity.energy <= last.pre.energy
             /\ last.rules.inactivity.energy >= Unit \div 10
        ELSE SameAffect(last.rules.inactivity, last.pre)

\* C23, amended: in a tick more than 10 s after last_activity the inactivity rule leaves
\* max(0.1, energy - 0.001 x seconds since last_activity): at least 0.1 always, at most
\* the energy before when that was at least 0.1, and exactly 0.1 when it was below; the
\* mood changes only to sleepy, and only when the energy left is below 0.3.  In a tick at
\* most 10 s after, the rule changes neither energy nor mood.
C23_InactivityDecaysToFloor ==
    (last.op = "update_mood" /\ InUnit(last.pre.energy)) =>
        IF SinceLastActivity > 10 * Sec
        THEN /\ last.rules.inactivity.energy =
                   Max(Unit \div 10, last.pre.energy - SinceLastActivity)
             /\ last.rules.inactivity.energy >= Unit \div 10
             /\ last.pre.energy >= Unit \div 10
                   => last.rules.inactivity.energy <= last.pre.energy
             /\ last.pre.energy < Unit \div 10
                   => last.rules.inactivity.energy = Unit \div 10
             /\ last.rules.inactivity.mood # last.pre.mood
                   => (/\ last.rules.inactivity.mood = "sleepy"
                       /\ last.rules.inactivity.energy < (3 * Unit) \div 10)
        ELSE SameAffect(last.rules.inactivity, last.pre)

\* A tick 11 s after last_activity that lowered an energy of 0.31 to 0.299 and turned
\* the mood sleepy.
C23_Witness ==
    /\ last.op = "update_mood"
    /\ SinceLastActivity = 11 * Sec
    /\ last.pre.energy = (31 * Unit) \div 100
    /\ last.rules.inactivity.energy = (299 * Unit) \div 1000
    /\ last.pre.mood # "sleepy"
    /\ last.rules.inactivity.mood = "sleepy"

(***************************************************************************)
(* The visual transition between moods                                     *)
(***************************************************************************)
\* Moods set between ticks: two moods without a particle template.
TransitionMoods == { "calm", "sleepy" }
MaxTransitionCalls == 24

\* The body under quiet ticks, 100 ms apart, and mood changes.
NextTransition ==
    /\ calls < MaxTransitionCalls
    /\ \/ BehaviorUpdate(Snapshot(960, 540, "background"), QuietTick.elapsed, QuietTick.d)
       \/ \E m \in TransitionMoods : SetMood(m)
    /\ UNCHANGED <<threads, mappings>>

SpecTransition == Init /\ [][NextTransition]_vars

\* The number of ticks a transition takes after the tick that started it: 1.0 / 0.05
TransitionLength == Unit \div transition_speed

\* C24: transition_progress is in [0,1] in every state; a tick that finds a transition in
\* progress adds 0.05 (cut off at 1.0), so the progress is 0.05 times the number of ticks
\* since the start and reaches 1.0 at the 20th; update leaves brain.mood, brain.energy
\* and brain.last_activity as they were.
C24_TransitionBounded ==
    /\ 0 <= behavior.transition_progress /\ behavior.transition_progress <= Unit
    /\ behavior.transition_progress < Unit =>
          /\ behavior.transition_ticks < TransitionLength
          /\ behavior.transition_progress = behavior.transition_ticks * transition_speed
    /\ last.op = "update" =>
          /\ last.pre.transition_progress < Unit =>
                behavior.transition_progress =
                    Min(Unit, last.pre.transition_progress + transition_speed)
          /\ brain.mood = last.brain.mood
          /\ brain.energy = last.brain.energy
          /\ brain.last_activity = last.brain.last_activity

\* The 20th tick after a transition started, made after a mood change: it completed the
\* transition and left the brain's mood alone.
C24_Witness ==
    /\ last.op = "update"
    /\ last.pre.transition_progress = Unit - transition_speed
    /\ behavior.transition_progress = Unit
    /\ behavior.transition_ticks = TransitionLength
    /\ brain.mood = "sleepy"

\* C30: a tick that finds no transition in progress and the brain's mood as it was at the
\* previous tick leaves transition_progress at 1.0.
C30_StableMoodKeepsTransitionComplete ==
    (/\ last.op = "update"
     /\ last.pre.transition_progress = Unit
     /\ last.pre.mood_seen = brain.mood) => behavior.transition_progress = Unit

(***************************************************************************)
(* Snapshot, tick, record                                                  *)
(***************************************************************************)
\* A faulty handler: the body is updated from the brain as it was before update_mood.
on_sensory_data_body_first(b, h, env, t, bd, hd) ==
    [brain |-> update_mood(b, env, t, bd), behavior |-> update(h, b, env, t, hd)]

\* KovrychOverlay.on_sensory_data(data) on the brain b and the body h at clock value t:
\* self.brain.update_mood(data), then self.behavior.update(data).
on_sensory_data_at(b, h, env, t, bd, hd) ==
    LET updated == update_mood(b, env, t, bd)
    IN  [brain |-> updated, behavior |-> update(h, updated, env, t, hd)]

\* One emitted snapshot: the data_updated signal runs on_sensory_data once.
DataUpdated(env, elapsed, bd, hd) ==
    LET t == now + elapsed
        r == on_sensory_data_at(brain, behavior, env, t, bd, hd)
    IN  /\ now' = t
        /\ brain' = r.brain
        /\ behavior' = r.behavior
        /\ inserted' = [inserted EXCEPT !.recs =
                           Append(@, r.brain.activity_history[Len(r.brain.activity_history)])]
        /\ last' = [op |-> "data_updated", env |-> env, pre |-> brain, body |-> behavior,
                    bd |-> bd]
        /\ calls' = calls + 1
        /\ UNCHANGED sensory

TickSnapshots == FullSnapshots \cup { Snapshot(960, 540, "background") }
TickDraws ==
    { NoDrift,
      [branch |-> Unit \div 2, drift |-> Unit \div 2, choice |-> "calm"],
      [branch |-> Unit \div 2, drift |-> (999 * Unit) \div 1000, choice |-> "sad"] }
TickElapsed == { 100, 11 * Sec }
TickImports == { [activity_history |-> SavedHistory(max_history_length)] }
MaxTickCalls == 3

\* Snapshots arriving one after the other, after a saved history was loaded or not.
NextTick ==
    /\ calls < MaxTickCalls
    /\ \/ \E env \in TickSnapshots, e \in TickElapsed, bd \in TickDraws :
             DataUpdated(env, e, bd, QuietTick.d)
       \/ \E st \in TickImports : ImportState(st)
    /\ UNCHANGED <<threads, mappings>>

SpecTick == Init /\ [][NextTick]_vars

\* The history after one more record: the record appended, the oldest dropped beyond 100.
WithRecord(history, rec) ==
    IF Len(history) + 1 > max_history_length
    THEN Tail(Append(history, rec)) ELSE Append(history, rec)

\* C25: a snapshot drives one tick, brain.update_mood first and behavior.update after it
\* (the body sees the mood update_mood left); the tick appends exactly one record, whose
\* mood and energy are the brain's at the end of the tick, and every record that stays
\* in the history is as it was before the tick.
C25_OneTickOneRecord ==
    last.op = "data_updated" =>
        LET h == brain.activity_history IN
        /\ h = WithRecord(last.pre.activity_history, ActivityRecord(last.env, now, brain))
        /\ h[Len(h)].response = [mood |-> brain.mood, energy |-> brain.energy]
        /\ h[Len(h)].data = last.env
        /\ \A i \in 1..(Len(h) - 1) :
              h[i] = last.pre.activity_history[i + Len(last.pre.activity_history) + 1 - Len(h)]
        /\ behavior.mood_seen = brain.mood
        /\ behavior.last_update_time = now
        /\ h[Len(h)].timestamp = now

\* A tick on a full history in which update_mood changed the mood: the oldest record was
\* dropped, the other 99 kept, and the body saw the new mood.
C25_Witness ==
    /\ last.op = "data_updated"
    /\ Len(last.pre.activity_history) = max_history_length
    /\ brain.mood # last.pre.mood
    /\ behavior.mood_seen = brain.mood
    /\ brain.activity_history[1] = last.pre.activity_history[2]
    /\ brain.activity_history[max_history_length].response.mood = brain.mood

(***************************************************************************)
(* The capped delta_time                                                   *)
(***************************************************************************)
\* Gaps between ticks: none, half a step, a full step, 5 s, a stall of 250 s.
StallElapsed == { 0, 50, 100, 5 * Sec, 250 * Sec }
StallDraws ==
    { Draws(Unit, 0, <<Unit, 0>>, Unit, 0, MidLife),
      Draws(-Unit, 0, <<Unit, 0>>, 0, NeverSpawn, MidLife) }
StallMoods == { "excited", "calm" }
MaxStallCalls == 3

\* The body under ticks any time apart.
NextStall ==
    /\ calls < MaxStallCalls
    /\ \/ \E e \in StallElapsed, d \in StallDraws :
             BehaviorUpdate(Snapshot(960, 540, "background"), e, d)
       \/ \E m \in StallMoods : SetMood(m)
    /\ UNCHANGED <<threads, mappings>>

SpecStall == Init /\ [][NextStall]_vars

\* The particle of h with the given id
ParticleOf(h, id) == h.particles[CHOOSE i \in 1..Len(h.particles) : h.particles[i].id = id]

\* C26: the delta_time of an update is min(0.1 s, time since the previous update), so at
\* most 0.1 s, and the pulse phase, the noise offset, the effect timer, the physics step
\* and the motion and life of every particle advance by that value.
C26_DeltaTimeCapped ==
    last.op = "update" =>
        LET dt == last.delta_time
            ax == collide_axis(integrate_axis(last.pre.x, last.pre.velocity_x,
                                              behavior.target_x, dt),
                               behavior.radius, behavior.canvas_width - behavior.radius)
        IN  /\ dt <= max_delta_time
            /\ dt = Min(max_delta_time, now - last.pre.last_update_time)
            /\ behavior.frame_time = dt
            /\ behavior.pulse_phase = last.pre.pulse_phase
                   + (get_current_mood_state(brain).pulse_speed * dt * 6) \div 100
            /\ behavior.noise_offset = last.pre.noise_offset + (dt * 6 * Unit) \div 10000
            /\ behavior.effect_timer = last.pre.effect_timer + dt
            /\ behavior.x = ax.p /\ behavior.velocity_x = ax.v
            /\ \A i \in 1..Len(last.pre.particles) :
                  LET q == last.pre.particles[i] IN
                  Present(behavior, q.id) =>
                      /\ ParticleOf(behavior, q.id).life = q.life - dt
                      /\ ParticleOf(behavior, q.id).x = q.x + (q.vx * dt) \div 1000
                      /\ ParticleOf(behavior, q.id).y = q.y + (q.vy * dt) \div 1000

\* A tick 250 s after the previous one: delta_time was 0.1 s, and a particle lost 0.1 s
\* of life.
C26_Witness ==
    /\ last.op = "update"
    /\ now - last.pre.last_update_time = 250 * Sec
    /\ last.delta_time = max_delta_time
    /\ \E i \in 1..Len(last.pre.particles) :
          /\ Present(behavior, last.pre.particles[i].id)
          /\ ParticleOf(behavior, last.pre.particles[i].id).life
                 = last.pre.particles[i].life - max_delta_time

(***************************************************************************)
(* Target policies without a stimulus                                      *)
(***************************************************************************)
\* Snapshots with the pointer in the notification zone, in the active zone, and the
\* latter without mouse_x, without mouse_y, without zone.
TargetSnapshots ==
    { Snapshot(1800, 50, "notification"), Snapshot(100, 100, "active") }
    \cup { Without(Snapshot(100, 100, "active"), {f}) : f \in {"mouse_x", "mouse_y", "zone"} }

TargetMoods     == { "alert", "curious", "calm" }
TargetPositions == { <<0, 0>>, <<400 * Px, 300 * Px>> }
MaxTargetCalls  == 4

\* The body under ticks with full and partial snapshots, mood changes and drags.
NextTarget ==
    /\ calls < MaxTargetCalls
    /\ \/ \E env \in TargetSnapshots :
             BehaviorUpdate(env, 100, Draws(Unit, 0, <<Unit, 0>>, 0, NeverSpawn, MidLife))
       \/ \E m \in TargetMoods : SetMood(m)
       \/ \E p \in TargetPositions : SetPosition(p[1], p[2])
    /\ UNCHANGED <<threads, mappings>>

SpecTarget == Init /\ [][NextTarget]_vars

\* The target the boundary check of update_movement leaves for a planned target (tx, ty)
Clamped(h, tx, ty) ==
    [x |-> clamp(tx, h.radius, h.canvas_width - h.radius),
     y |-> clamp(ty, h.radius, h.canvas_height - h.radius)]

TargetOf(h) == [x |-> h.target_x, y |-> h.target_y]

\* The centre of the notification rectangle, in the body's units
NotificationCentre ==
    [x |-> (brain.zones.notification.x * Px) + (brain.zones.notification.width * Px) \div 2,
     y |-> (brain.zones.notification.y * Px) + (brain.zones.notification.height * Px) \div 2]

\* C27: in mood alert with a zone other than 'notification', and in mood curious without
\* mouse_x or without mouse_y, the target after update_movement is the target before it,
\* moved by the boundary check only; in mood alert with zone 'notification' it is the
\* centre of the notification rectangle, moved by the boundary check only.
C27_NoStimulusKeepsTarget ==
    last.op = "update" =>
        /\ (brain.mood = "alert" /\ Get(last.env, "zone", "") # "notification")
              => TargetOf(behavior) = Clamped(behavior, last.pre.target_x, last.pre.target_y)
        /\ (brain.mood = "curious" /\ {"mouse_x", "mouse_y"} \ DOMAIN last.env # {})
              => TargetOf(behavior) = Clamped(behavior, last.pre.target_x, last.pre.target_y)
        /\ (brain.mood = "alert" /\ Get(last.env, "zone", "") = "notification")
              => TargetOf(behavior) = Clamped(behavior, NotificationCentre.x, NotificationCentre.y)

\* A tick in mood curious without mouse_y that kept a target away from the body, set by
\* an earlier alert tick in the notification zone.
C27_Witness ==
    /\ last.op = "update"
    /\ brain.mood = "curious"
    /\ "mouse_y" \notin DOMAIN last.env
    /\ last.pre.target_x = NotificationCentre.x
    /\ last.pre.target_x # last.pre.x
    /\ TargetOf(behavior) = TargetOf(last.pre)

(***************************************************************************)
(* Clicks and the visual-change level                                      *)
(*                                                                         *)
(* on_mouse_click is the on_click callback of pynput's listener and runs   *)
(* on the listener's thread, which runs no Qt event loop.  Whether         *)
(* QTimer.singleShot, called there, starts a timer that will fire is not   *)
(* decided by the program: `started` is either outcome.                    *)
(***************************************************************************)
\* on_mouse_click(x, y, button, pressed) at clock value t
on_mouse_click(s, pressed, t, started) ==
    IF pressed
    THEN [s EXCEPT !.visual_change_level = Max(@, (7 * Unit) \div 10),
                   !.decay_timers = IF started THEN Append(@, t + 500) ELSE @]
    ELSE s

\* decay_visual_change
decay_visual_change(s) == [s EXCEPT !.visual_change_level = @ \div 2]

\* sample_screen with two frames: change_percent is the share of changed pixels
sample_screen(s, change_percent) ==
    [s EXCEPT !.visual_change_level = Min(Unit, change_percent * 10)]

\* update_window_info when the foreground window is w
update_window_info(s, w) ==
    IF w.title # s.active_window.title
    THEN [s EXCEPT !.active_window = w,
                   !.visual_change_level = Max(@, (6 * Unit) \div 10)]
    ELSE s

OnMouseClick(pressed, elapsed, started) ==
    /\ now' = now + elapsed
    /\ sensory' = on_mouse_click(sensory, pressed, now + elapsed, started)
    /\ last' = [op |-> "on_mouse_click", pressed |-> pressed, pre |-> sensory]
    /\ calls' = calls + 1
    /\ UNCHANGED <<brain, behavior, inserted>>

\* The oldest started single-shot timer fires, at its due time or later.
DecayVisualChange ==
    /\ sensory.decay_timers # << >>
    /\ now' = Max(now, Head(sensory.decay_timers))
    /\ sensory' = [decay_visual_change(sensory) EXCEPT !.decay_timers = Tail(@)]
    /\ last' = [op |-> "decay_visual_change", pre |-> sensory]
    /\ calls' = calls + 1
    /\ UNCHANGED <<brain, behavior, inserted>>

SampleScreen(change_percent) ==
    /\ sensory' = sample_screen(sensory, change_percent)
    /\ last' = [op |-> "sample_screen", pre |-> sensory]
    /\ calls' = calls + 1
    /\ UNCHANGED <<brain, behavior, now, inserted>>

UpdateWindowInfo(w) ==
    /\ sensory' = update_window_info(sensory, w)
    /\ last' = [op |-> "update_window_info", pre |-> sensory]
    /\ calls' = calls + 1
    /\ UNCHANGED <<brain, behavior, now, inserted>>

ClickElapsed  == { 100, 600 }
ChangePercent == { 0, Unit \div 20, Unit \div 2, Unit }
Windows ==
    { [title |-> "editor", x |-> 100, y |-> 100, width |-> 800, height |-> 600,
       is_active |-> TRUE] }
MaxClickCalls == 4

\* The sensory system under clicks, timer firings, window changes, screen samples and
\* firings of the data timer.
NextClicks ==
    /\ calls < MaxClickCalls
    /\ \/ \E pressed \in BOOLEAN, e \in ClickElapsed, started \in BOOLEAN :
             OnMouseClick(pressed, e, started)
       \/ DecayVisualChange
       \/ \E c \in ChangePercent : SampleScreen(c)
       \/ \E w \in Windows : UpdateWindowInfo(w)
       \/ \E e \in {100, Sec} : EmitSensoryData(e, 0, NoDrift, QuietTick.d)
    /\ UNCHANGED <<threads, mappings>>

SpecClicks == Init /\ [][NextClicks]_vars

\* C28: a press leaves visual_change_level at max(level, 0.7) and one more halving
\* scheduled, due 500 ms later; a release changes nothing and schedules nothing; a
\* halving due is one halving; and visual_change_level is in [0,1] in every state.
C28_PressRaisesAndSchedulesOneHalving ==
    /\ InUnit(sensory.visual_change_level)
    /\ last.op = "on_mouse_click" =>
          IF last.pressed
          THEN /\ sensory.visual_change_level =
                      Max(last.pre.visual_change_level, (7 * Unit) \div 10)
               /\ sensory.decay_timers = Append(last.pre.decay_timers, now + 500)
          ELSE sensory = last.pre
    /\ last.op = "decay_visual_change" =>
          sensory.visual_change_level = last.pre.visual_change_level \div 2

(***************************************************************************)
(* The zone reported for the pointer                                       *)
(***************************************************************************)
\* The pointer of the snapshot env lies inside the rectangle of zone z.
PointerIn(env, z) == is_point_in_zone(env.mouse_x, env.mouse_y, brain.zones[z])

\* C29: a snapshot whose pointer lies inside the notification, productivity or media
\* rectangle reports that zone, and reports 'background' exactly when the pointer lies
\* inside none of the four rectangles.
C29_PointerZoneReported ==
    last.op = "emit_sensory_data" =>
        /\ \A z \in {"notification", "productivity", "media"} :
              PointerIn(last.env, z) => last.env.zone = z
        /\ last.env.zone = "background" <=>
              \A z \in DOMAIN brain.zones : ~PointerIn(last.env, z)

(***************************************************************************)
(* The two ends of a transition in progress                                *)
(***************************************************************************)
\* C31: whenever a transition is in progress (transition_progress < 1.0),
\* transition_to_mood is the brain's current mood and transition_from_mood is another
\* mood, the one that held before the change.
C31_TransitionFromOldToNew ==
    (last.op = "update" /\ behavior.transition_progress < Unit) =>
        /\ behavior.transition_to_mood = brain.mood
        /\ behavior.transition_from_mood # behavior.transition_to_mood

(***************************************************************************)
(* The opacity of a particle                                               *)
(***************************************************************************)
\* C32: every particle in the list satisfies 0 < life <= initial_life in every state, so
\* the opacity life / initial_life that render_particles computes is in (0, 1].
C32_ParticleLifeWithinInitialLife ==
    \A i \in 1..Len(behavior.particles) :
        /\ 0 < behavior.particles[i].life
        /\ behavior.particles[i].life <= behavior.particles[i].initial_life

(***************************************************************************)
(* The velocity after a boundary collision                                 *)
(***************************************************************************)
\* C33: after an apply_physics step whose position update left the body beyond a boundary,
\* the velocity on that axis points into the canvas or is zero: velocity_x >= 0 after
\* clamping at the left edge and <= 0 at the right edge, likewise for y.
C33_CollisionVelocityPointsInward ==
    last.op = "apply_physics" =>
        LET ix == integrate_axis(last.pre.x, last.pre.velocity_x, last.pre.target_x,
                                 last.delta_time)
            iy == integrate_axis(last.pre.y, last.pre.velocity_y, last.pre.target_y,
                                 last.delta_time)
        IN  /\ ix.p < last.pre.radius => behavior.velocity_x >= 0
            /\ ix.p > last.pre.canvas_width - last.pre.radius => behavior.velocity_x <= 0
            /\ iy.p < last.pre.radius => behavior.velocity_y >= 0
            /\ iy.p > last.pre.canvas_height - last.pre.radius => behavior.velocity_y <= 0

(***************************************************************************)
(* Exported and imported states                                            *)
(*                                                                         *)
(* export_state puts self.activity_history itself into the mapping it      *)
(* returns, and import_state binds self.activity_history to the list of    *)
(* the mapping it is given: a mapping in `mappings` whose field shares is  *)
(* TRUE holds the very list object the brain holds, and sees every         *)
(* in-place change (append, pop) record_activity makes to it.  The field   *)
(* returned is a history field: the mapping's value when it was returned   *)
(* by export_state or handed to import_state.                              *)
(***************************************************************************)
\* export_state(): the mapping returned.
export_state(b) ==
    [mood |-> b.mood, energy |-> b.energy, curiosity |-> b.curiosity,
     last_activity |-> b.last_activity,
     activity_history |-> [is_list |-> TRUE, items |-> b.activity_history]]

\* import_state binds the brain's history to the list of the mapping `state`.
TakesList(state) ==
    "activity_history" \in DOMAIN state /\ state.activity_history.is_list

\* The mappings after record_activity changed the brain's list in place.
SeenThroughReferences(ms, b) ==
    [i \in DOMAIN ms |->
        IF ms[i].shares
        THEN [ms[i] EXCEPT !.state.activity_history.items = b.activity_history]
        ELSE ms[i]]

\* The mappings after self.activity_history was bound to another list.
Rebound(ms) == [i \in DOMAIN ms |-> [ms[i] EXCEPT !.shares = FALSE]]

\* KovrychaBrain.export_state, as save_application_state calls it.
ExportState ==
    /\ mappings' = Append(mappings, [state |-> export_state(brain),
                                     returned |-> export_state(brain),
                                     shares |-> TRUE])
    /\ last' = [op |-> "export_state", pre |-> brain]
    /\ calls' = calls + 1
    /\ UNCHANGED <<brain, behavior, sensory, now, inserted>>

\* One tick of the brain while mappings are held.
UpdateMoodHeld(env, elapsed, draws) ==
    /\ UpdateMood(env, elapsed, draws)
    /\ mappings' = SeenThroughReferences(mappings, brain')

\* import_state handed a mapping that its caller keeps.
ImportStateHeld(state) ==
    /\ ImportState(state)
    /\ mappings' = Append(IF TakesList(state) THEN Rebound(mappings) ELSE mappings,
                          [state |-> state, returned |-> state,
                           shares |-> TakesList(state)])

\* on_clear_history while mappings are held: the brain gets a new, empty list.
ClearHistoryHeld ==
    /\ ClearHistory
    /\ mappings' = Rebound(mappings)

\* The mappings handed to import_state: a saved history of two records, and no history.
HeldStates == { [mood |-> "sad", activity_history |-> SavedHistory(2)], [energy |-> Unit \div 5] }
HeldSnapshots == { QuietSnapshot, BusySnapshot }
MaxHeldCalls == 4

NextHeld ==
    /\ calls < MaxHeldCalls
    /\ \/ ExportState
       \/ \E env \in HeldSnapshots : UpdateMoodHeld(env, 100, NoDrift)
       \/ \E st \in HeldStates : ImportStateHeld(st)
       \/ ClearHistoryHeld
    /\ UNCHANGED threads

SpecHeld == Init /\ [][NextHeld]_vars

\* C34: a mapping returned by export_state or handed to import_state keeps the value it
\* had then, whatever ticks run afterwards: the brain's history is a list of its own.
C34_ExportedStateIsSnapshot ==
    \A i \in DOMAIN mappings : mappings[i].state = mappings[i].returned

(***************************************************************************)
(* A click on the listener thread against the decay on the tick thread     *)
(*                                                                         *)
(* on_mouse_click runs on the pynput listener thread, simulate_visual_     *)
(* changes on the Qt thread, and no lock guards visual_change_level: each  *)
(* assignment reads the attribute, computes, and writes it back, and the   *)
(* other thread may run between the read and the write.  threads holds,    *)
(* for each thread, where it is and the value it has read.                 *)
(***************************************************************************)
\* Both threads before their call; the level was left by sample_screen.
RaceLevels  == { 0, 5, 9 }          \* change_percent of the last sample, in hundredths
RaceElapsed == { 100, 500, 2 * Sec }
MaxRaceCalls == 2

InitRace ==
    /\ brain = [BrainNew(ProgramStart) EXCEPT
                   !.zones = update_zones(@, SensoryNew(ProgramStart))]
    /\ behavior = BehaviorNew(ScreenWidth * Px, ScreenHeight * Px, ProgramStart)
    /\ \E c \in RaceLevels :
          sensory = sample_screen(SensoryNew(ProgramStart), (c * Unit) \div 100)
    /\ now = ProgramStart
    /\ calls = 0
    /\ last = NoOp
    /\ inserted = [on |-> TRUE, recs |-> << >>]
    /\ threads = [listener |-> [pc |-> "idle", pressed |-> FALSE, level |-> 0],
                  tick     |-> [pc |-> "idle", level |-> 0, time_since_last_sample |-> 0]]
    /\ mappings = << >>

\* on_mouse_click(pressed): a release returns at once; a press reads visual_change_level.
ClickRead(pressed) ==
    /\ threads.listener.pc = "idle"
    /\ threads' = [threads EXCEPT !.listener =
                      IF pressed
                      THEN [pc |-> "write", pressed |-> TRUE,
                            level |-> sensory.visual_change_level]
                      ELSE [@ EXCEPT !.pc = "done"]]
    /\ last' = [op |-> "click_read", pressed |-> pressed]
    /\ calls' = calls + 1
    /\ UNCHANGED <<brain, behavior, sensory, now, inserted>>

\* on_mouse_click: the write of max(level read, 0.7).
ClickWrite ==
    /\ threads.listener.pc = "write"
    /\ sensory' = [sensory EXCEPT !.visual_change_level =
                      Max(threads.listener.level, (7 * Unit) \div 10)]
    /\ threads' = [threads EXCEPT !.listener.pc = "done"]
    /\ last' = [op |-> "click_write"]
    /\ UNCHANGED <<brain, behavior, now, calls, inserted>>

\* simulate_visual_changes, `elapsed` ms after the previous clock reading: the clock is
\* read, then visual_change_level.
DecayRead(elapsed) ==
    /\ threads.tick.pc = "idle"
    /\ now' = now + elapsed
    /\ threads' = [threads EXCEPT !.tick =
                      [pc |-> "write", level |-> sensory.visual_change_level,
                       time_since_last_sample |-> now + elapsed - sensory.last_sampled_time]]
    /\ last' = [op |-> "decay_read"]
    /\ calls' = calls + 1
    /\ UNCHANGED <<brain, behavior, sensory, inserted>>

\* simulate_visual_changes: the write of max(0, level read - time_since_last_sample * 0.2).
DecayWrite ==
    /\ threads.tick.pc = "write"
    /\ sensory' = [sensory EXCEPT !.visual_change_level =
                      Max(0, threads.tick.level - threads.tick.time_since_last_sample * 200)]
    /\ threads' = [threads EXCEPT !.tick.pc = "rest"]
    /\ last' = [op |-> "decay_write"]
    /\ UNCHANGED <<brain, behavior, now, calls, inserted>>

\* simulate_visual_changes: the pointer-activity decay and last_sampled_time.
DecayRest ==
    /\ threads.tick.pc = "rest"
    /\ sensory' = [simulate_visual_changes(sensory, now) EXCEPT
                      !.visual_change_level = sensory.visual_change_level]
    /\ threads' = [threads EXCEPT !.tick.pc = "done"]
    /\ last' = [op |-> "decay_rest"]
    /\ UNCHANGED <<brain, behavior, now, calls, inserted>>

NextRace ==
    /\ \/ /\ calls < MaxRaceCalls
          /\ \/ \E pressed \in BOOLEAN : ClickRead(pressed)
             \/ \E e \in RaceElapsed : DecayRead(e)
       \/ ClickWrite
       \/ DecayWrite
       \/ DecayRest
    /\ UNCHANGED mappings

SpecRace == InitRace /\ [][NextRace]_vars

\* C35: once a click press and one simulate_visual_changes call have both finished, in
\* whatever order their statements ran, visual_change_level is at least 0.7 minus the
\* decay amount of that call.
C35_ClickSurvivesDecay ==
    (/\ threads.listener.pc = "done" /\ threads.listener.pressed
     /\ threads.tick.pc = "done") =>
        sensory.visual_change_level >=
            (7 * Unit) \div 10 - threads.tick.time_since_last_sample * 200

=============================================================================
